---- MODULE Spec2Model ----
(***************************************************************************)
(* go-grpc-kit: the service-discovery-to-connection pipeline.             *)
(*                                                                         *)
(*   pkg/client/factory.go    ClientFactory (connection cache)             *)
(*   pkg/client/resolver.go   discoveryResolver (watch loop, ResolveNow)   *)
(*   pkg/discovery/etcd.go    EtcdRegistry.Watch / Discover                *)
(*   pkg/discovery/consul.go  ConsulRegistry.Watch / Discover              *)
(*   pkg/discovery (registry) ServiceManager, Register / Deregister        *)
(*                                                                         *)
(* The specifications share the variables below:                           *)
(*   SpecFactory   callers of GetClient / Close on one ClientFactory       *)
(*   SpecWatch     one Registry.Watch subscription and a plain consumer    *)
(*   SpecWatchLive SpecWatch with fair scheduling of its goroutines        *)
(*   SpecResolver  one discoveryResolver on top of a Watch subscription    *)
(*   SpecRegistry  one Registry used through its ServiceManager            *)
(*   SpecManager   goroutines calling one ServiceManager concurrently      *)
(*   SpecServer    one Server: Start, Stop, RegisterService                *)
(*   SpecShutdown  Application.shutdown and the GrpcApplication modules    *)
(*   SpecNaming    NewRegistry and the builders of keys and service IDs    *)
(*   SpecDial      the locked part of GetClient, step by step              *)
(***************************************************************************)
EXTENDS Integers, Sequences, FiniteSets, TLC

\* ---------------------------------------------------------------- bounds
NumCallers == 2      \* concurrent callers of the ClientFactory
MaxDials   == 2      \* connections the factory may dial in one run
MaxChanges == 2      \* backend changes while a watch or a resolver is observed
MaxResolves == 1     \* ResolveNow goroutines in flight at once
MaxLeases  == 2      \* leases the etcd backend grants in one run
NumThreads == 2      \* goroutines that call one ServiceManager
MaxListeners == 2    \* listeners the process can hold open at once
MaxStarts  == 2      \* grpc.Server values Start creates in one run
MaxServices == 2     \* services handed to Server.RegisterService in one run
MaxLen     == 3      \* characters in a service name or address whose key is built

\* --------------------------------------------------------------- domains
Names   == {"svcA", "svcB"}
Addrs   == {"10.0.0.5"}
Ports   == {9090, 9091}
Records == [name : Names, address : Addrs, port : Ports]

\* a snapshot: the list Discover returned, with the backend version it reflects
Snapshots == [ver : Int, recs : SUBSET Records]
NoSnap    == [ver |-> -1, recs |-> {}]

Callers == 1 .. NumCallers
NoConn  == 0
ConnIds == 1 .. MaxDials

VARIABLES
    \* the backend store shared by every component
    store,        \* set of ServiceInfo records visible in the backend
    storeVer,     \* number of changes the backend has applied
    \* ClientFactory
    fregistry,    \* "nil" | "set": ClientFactory.registry
    clients,      \* ClientFactory.clients: name -> connection (NoConn: absent)
    muWriter,     \* ClientFactory.mu: the caller holding Lock, or 0
    pc,           \* each caller's position
    arg,          \* each caller's serviceName
    res,          \* each caller's result: "none", "conn" (GetClient returned a
                  \* connection), "err", "panic", "nil" (Close returned nil)
    conn,         \* the connection GetClient returned to the caller, or NoConn
    disc,         \* how the caller's call went under the lock: "none", "hit2" (the
                  \* second check found an entry), or what Discover gave:
                  \* "err", "empty", "found"; for Close how the conn.Close calls
                  \* went: "closed" (none failed), "closepart" (some failed),
                  \* "closenone" (all failed)
    dialed,       \* whether the caller's call reached grpc.DialContext
    crossed,      \* whether a Close took the lock while the caller's call ran
    nextConn,     \* next connection identity grpc.DialContext hands out
    live,         \* connections dialed and not closed
    dialsSince,   \* name -> successful dials since the cache was last cleared
    keyOf,        \* open connection -> the service name it was dialed for
    fclosed,      \* connections ClientFactory.Close has called conn.Close on
    \* one Registry.Watch subscription
    backend,      \* "etcd" | "consul": the Registry implementation
    wctx,         \* the context given to Watch: "none", "active", "cancelled"
    wpc,          \* position of the Watch call, then of its goroutine
    wret,         \* what Watch returned: "none", "ok", "err"
    wch,          \* the returned channel's buffer (capacity 1)
    wchClosed,    \* whether the returned channel is closed
    wsub,         \* etcd: client.Watch has opened the backend watch
    wevents,      \* etcd: change events queued on watchCh
    werr,         \* etcd: an error response is queued on watchCh
    wlocal,       \* the snapshot the goroutine is about to send
    lastIndex,    \* consul: the goroutine's lastIndex
    subSnap,      \* what the Discover inside the Watch call returned
    wfirst,       \* the first snapshot the consumer received
    wlast,        \* the latest snapshot the consumer received
    owed,         \* instances registered after Watch returned that no snapshot
                  \* received by the plain consumer has shown yet
    \* one discoveryResolver
    rpc,          \* position of the start goroutine: "none" (not built),
                  \* "spawned", "watch", "loop", "update", "exited", "dead"
    rctx,         \* r.ctx: "bg" (context.Background) or "w" (the watch context)
    rcancel,      \* r.cancel: "nil" or "set"
    rsvc,         \* the snapshot the loop received and is about to push
    rclose,       \* "none", or "returned" once Close has returned
    gpc,          \* each ResolveNow goroutine: "none", "spawned", "discovered"
    gsnap,        \* what each ResolveNow goroutine's Discover returned
    ccState,      \* the state last pushed with cc.UpdateState
    pushedAfterClose, \* whether UpdateState was called after Close returned
    \* one Registry of the registering process, and its ServiceManager
    leases,       \* etcd: lease -> "none" (not granted), "kept" (alive, KeepAlive
                  \* running), "unkept" (alive, KeepAlive stopped), "revoked",
                  \* "expired"
    leaseOf,      \* etcd: record -> the lease its key was last written with, or 0
    leaseID,      \* EtcdRegistry.leaseID, or 0
    critical,     \* consul: records registered whose health check has not passed
    services,     \* ServiceManager.services: the RegisteredSet
    owned,        \* records whose latest Register succeeded and whose Deregister
                  \* has not
    lastOp,       \* the ServiceManager call that returned last, and its outcome
    \* concurrent callers of the ServiceManager
    mpc,          \* each caller's position
    mrec,         \* each caller's record
    kept,         \* records whose Register succeeded and for which no Deregister
                  \* was called since
    \* one Server
    started,      \* Server.started
    listeners,    \* listeners net.Listen has opened and nobody closed
    servers,      \* grpc.Server values Start has created
    svcs,         \* len(Server.services)
    health,       \* the status set in healthSrv: "unset", "serving", "notserving"
    up,           \* whether the last Start / Stop that took effect was a Start
    sOp,          \* the Server call that returned last, and its outcome
    \* Application.shutdown and GrpcApplication.shutdown
    apc,          \* position of Application.shutdown: "idle", "wait", "returned"
    steps,        \* Application.shutdown: cleanup step -> "nil" (the component is
                  \* nil), "none", "spawned" (its goroutine was launched), "ok",
                  \* "err"
    ares,         \* what Application.shutdown returned
    mods,         \* GrpcApplication.modules: sequence of [enabled, stop]
    gi,           \* GrpcApplication.shutdown: the loop index i + 1, or -1 before
                  \* the call
    gres,         \* what GrpcApplication.shutdown returned
    si,           \* GrpcApplication.startModules: the module the loop is at,
                  \* or len(modules) + 1 once it has returned nil
    startLog,     \* the modules Start was called on, in call order
    stopLog,      \* the modules Stop was called on, in call order
    mstarted,     \* the modules whose started flag is set
    visible,      \* whether the application's record is listed in the registry
    dereg,        \* DiscoveryModule.Stop: "none", or how the deregistration
                  \* went: "ok", "failed"
    \* the process
    crashed,      \* whether an unrecovered panic or a runtime fatal error ended it
    \* constructors and key builders
    call,         \* the constructor or key-builder call that was made, with its
                  \* inputs and results
    \* the resolvers of the ClientFactory's connections
    builder,      \* the builder registered in grpc's resolver registry under
                  \* the scheme "discovery": its serviceName, or "" (none)
    loops         \* connection -> the serviceName of each start goroutine
                  \* launched by a resolver built for it

fvars == <<fregistry, clients, muWriter, pc, arg, res, conn, disc, dialed,
           crossed, nextConn, live, dialsSince, keyOf, fclosed>>
svars == <<store, storeVer>>
wvars == <<backend, wctx, wpc, wret, wch, wchClosed, wsub, wevents, werr, wlocal,
           lastIndex, subSnap, wfirst, wlast, owed>>
rvars == <<rpc, rctx, rcancel, rsvc, rclose, gpc, gsnap, ccState, pushedAfterClose>>
gvars == <<leases, leaseOf, leaseID, critical, services, owned, lastOp>>
mvars == <<mpc, mrec, kept>>
xvars == <<started, listeners, servers, svcs, health, up, sOp>>
savars == <<si, startLog, stopLog, mstarted, visible, dereg>>
avars == <<apc, steps, ares, mods, gi, gres, savars>>
dvars == <<builder, loops>>
pvars == <<mvars, xvars, avars, crashed, call, dvars>>
vars  == <<svars, fvars, wvars, rvars, gvars, pvars>>

\* ------------------------------------------------------------- the store
\* Registry.Discover: the records registered under one service name
Discover(name) == {r \in store : r.name = name}

\* the backend applies a registration / a deregistration
StorePut(r) == r \notin store /\ store' = store \cup {r}
StoreDel(r) == r \in store /\ store' = store \ {r}

\* ---------------------------------------------------------- ClientFactory
\* NewClientFactory
FactoryInit ==
    /\ fregistry \in {"nil", "set"}
    /\ clients = [n \in Names |-> NoConn]
    /\ muWriter = 0
    /\ pc = [c \in Callers |-> "idle"]
    /\ arg = [c \in Callers |-> "svcA"]
    /\ res = [c \in Callers |-> "none"]
    /\ conn = [c \in Callers |-> NoConn]
    /\ disc = [c \in Callers |-> "none"]
    /\ dialed = [c \in Callers |-> FALSE]
    /\ crossed = [c \in Callers |-> FALSE]
    /\ nextConn = 1
    /\ live = {}
    /\ dialsSince = [n \in Names |-> 0]
    /\ keyOf = [k \in ConnIds |-> ""]
    /\ fclosed = {}

\* GetClient, the optimistic read: RLock, f.clients[serviceName], RUnlock.
\* The read section holds one map read, so it is one step, possible only
\* while no caller holds the exclusive lock.
GetClient_Read(c, n) ==
    /\ pc[c] = "idle"
    /\ muWriter = 0
    /\ arg' = [arg EXCEPT ![c] = n]
    /\ crossed' = [crossed EXCEPT ![c] = FALSE]
    /\ IF clients[n] # NoConn
          THEN /\ res' = [res EXCEPT ![c] = "conn"]
               /\ conn' = [conn EXCEPT ![c] = clients[n]]
               /\ pc' = [pc EXCEPT ![c] = "done"]
          ELSE /\ pc' = [pc EXCEPT ![c] = "wlock"]
               /\ UNCHANGED <<res, conn>>
    /\ UNCHANGED <<fregistry, clients, muWriter, disc, dialed, nextConn, live,
                   dialsSince, keyOf, fclosed>>
    /\ UNCHANGED <<svars, wvars, rvars, gvars, pvars>>

\* GetClient: f.mu.Lock()
GetClient_Lock(c) ==
    /\ pc[c] = "wlock"
    /\ muWriter = 0
    /\ muWriter' = c
    /\ pc' = [pc EXCEPT ![c] = "locked"]
    /\ UNCHANGED <<fregistry, clients, arg, res, conn, disc, dialed, crossed,
                   nextConn, live, dialsSince, keyOf, fclosed>>
    /\ UNCHANGED <<svars, wvars, rvars, gvars, pvars>>

\* the second presence check, made under the exclusive lock
SecondCheckSkipped(n) == FALSE
SecondCheckHit(n) == clients[n] # NoConn

\* createConnection: len(services) == 0
NotFoundNever(list) == FALSE
NotFound(list) == list = {}

\* what f.registry.Discover gives createConnection: a backend failure or
\* the records of the name
DiscoverResults(n) == {"err", IF Discover(n) = {} THEN "empty" ELSE "found"}

\* GetClient: f.clients[serviceName] = conn
StoreConnSkipped(n, k) == clients
StoreConn(n, k) == [clients EXCEPT ![n] = k]

\* GetClient: if err != nil { return nil, err } comes before the store into
\* the map, so a failed createConnection leaves f.clients as it was
CacheAfterFailureStored(n, k) == [clients EXCEPT ![n] = k]
CacheAfterFailure(n, k) == clients

\* GetClient under the exclusive lock: the second check, then
\* createConnection (Discover, the existence check, grpc.DialContext), the
\* store into the map and the deferred Unlock.  A nil registry makes the
\* method call f.registry.Discover panic; the deferred Unlock still runs.
GetClient_Locked(c) ==
    /\ pc[c] = "locked"
    /\ muWriter' = 0
    /\ pc' = [pc EXCEPT ![c] = "done"]
    /\ IF SecondCheckHit(arg[c])
          THEN /\ res' = [res EXCEPT ![c] = "conn"]
               /\ conn' = [conn EXCEPT ![c] = clients[arg[c]]]
               /\ disc' = [disc EXCEPT ![c] = "hit2"]
               /\ UNCHANGED <<clients, dialed, nextConn, live, dialsSince, keyOf>>
          ELSE IF fregistry = "nil"
          THEN /\ res' = [res EXCEPT ![c] = "panic"]
               /\ UNCHANGED <<clients, conn, disc, dialed, nextConn, live, dialsSince,
                              keyOf>>
          ELSE \E d \in DiscoverResults(arg[c]) :
               /\ disc' = [disc EXCEPT ![c] = d]
               /\ IF d = "err" \/ NotFound(Discover(arg[c]))
                     THEN /\ res' = [res EXCEPT ![c] = "err"]
                          /\ clients' = CacheAfterFailure(arg[c], nextConn)
                          /\ UNCHANGED <<conn, dialed, nextConn, live,
                                         dialsSince, keyOf>>
                     ELSE /\ dialed' = [dialed EXCEPT ![c] = TRUE]
                          /\ \/ /\ nextConn <= MaxDials
                                /\ res' = [res EXCEPT ![c] = "conn"]
                                /\ conn' = [conn EXCEPT ![c] = nextConn]
                                /\ clients' = StoreConn(arg[c], nextConn)
                                /\ live' = live \cup {nextConn}
                                /\ keyOf' = [keyOf EXCEPT ![nextConn] = arg[c]]
                                /\ dialsSince' = [dialsSince EXCEPT ![arg[c]] = @ + 1]
                                /\ nextConn' = nextConn + 1
                             \/ /\ res' = [res EXCEPT ![c] = "err"]
                                /\ clients' = CacheAfterFailure(arg[c], nextConn)
                                /\ UNCHANGED <<conn, live, dialsSince,
                                               nextConn, keyOf>>
    /\ UNCHANGED <<fregistry, arg, crossed, fclosed>>
    /\ UNCHANGED <<svars, wvars, rvars, gvars, pvars>>

\* ClientFactory.Close: f.mu.Lock()
Factory_Close_Lock(c) ==
    /\ pc[c] = "idle"
    /\ muWriter = 0
    /\ muWriter' = c
    /\ crossed' = [d \in Callers |-> pc[d] # "idle"]
    /\ pc' = [pc EXCEPT ![c] = "closing"]
    /\ UNCHANGED <<fregistry, clients, arg, res, conn, disc, dialed, nextConn,
                   live, dialsSince, keyOf, fclosed>>
    /\ UNCHANGED <<svars, wvars, rvars, gvars, pvars>>

\* Close: f.clients = make(map[string]*grpc.ClientConn), whichever of the
\* conn.Close calls failed
CacheKeepsFailed(failed) ==
    [n \in Names |-> IF clients[n] \in failed THEN clients[n] ELSE NoConn]
CacheKept(failed) == clients
CacheAfterClose(failed) == [n \in Names |-> NoConn]

\* Close: the loop over f.clients calls conn.Close on every cached connection
ClosedByNone(cached) == {}
ClosedBy(cached) == cached

\* ClientFactory.Close under the lock: Close is called on every cached
\* connection; it fails on a connection that is closed already
\* (ErrClientConnClosing) and the failure is logged; the map is replaced by
\* an empty one and nil is returned.
Factory_Close_Locked(c) ==
    /\ pc[c] = "closing"
    /\ LET cached == {clients[n] : n \in Names} \ {NoConn}
           failed == cached \ live
       IN  /\ live' = live \ ClosedBy(cached)
           /\ fclosed' = fclosed \cup ClosedBy(cached)
           /\ keyOf' = [k \in ConnIds |-> IF k \in live' THEN keyOf[k] ELSE ""]
           /\ clients' = CacheAfterClose(failed)
           /\ disc' = [disc EXCEPT ![c] =
                          IF failed = {} THEN "closed"
                          ELSE IF failed = cached THEN "closenone" ELSE "closepart"]
    /\ dialsSince' = [n \in Names |-> 0]
    /\ muWriter' = 0
    /\ res' = [res EXCEPT ![c] = "nil"]
    /\ pc' = [pc EXCEPT ![c] = "done"]
    /\ UNCHANGED <<fregistry, arg, conn, dialed, crossed, nextConn>>
    /\ UNCHANGED <<svars, wvars, rvars, gvars, pvars>>

\* a caller closes the connection GetClient gave it (grpc.ClientConn.Close)
Conn_Close(c) ==
    /\ pc[c] = "done"
    /\ res[c] = "conn"
    /\ conn[c] \in live
    /\ live' = live \ {conn[c]}
    /\ keyOf' = [keyOf EXCEPT ![conn[c]] = ""]
    /\ UNCHANGED <<fregistry, clients, muWriter, pc, arg, res, conn, disc, dialed,
                   crossed, nextConn, dialsSince, fclosed>>
    /\ UNCHANGED <<svars, wvars, rvars, gvars, pvars>>

\* the caller takes its result and is free to call again
Caller_Return(c) ==
    /\ pc[c] = "done"
    /\ pc' = [pc EXCEPT ![c] = "idle"]
    /\ arg' = [arg EXCEPT ![c] = "svcA"]
    /\ res' = [res EXCEPT ![c] = "none"]
    /\ conn' = [conn EXCEPT ![c] = NoConn]
    /\ disc' = [disc EXCEPT ![c] = "none"]
    /\ dialed' = [dialed EXCEPT ![c] = FALSE]
    /\ crossed' = [crossed EXCEPT ![c] = FALSE]
    /\ UNCHANGED <<fregistry, clients, muWriter, nextConn, live, dialsSince, keyOf,
                   fclosed>>
    /\ UNCHANGED <<svars, wvars, rvars, gvars, pvars>>

\* another process registers / deregisters an instance in the backend
Factory_EnvRegister(r) == StorePut(r) /\ UNCHANGED <<storeVer, fvars, wvars, rvars, gvars, pvars>>
Factory_EnvDeregister(r) == StoreDel(r) /\ UNCHANGED <<storeVer, fvars, wvars, rvars, gvars, pvars>>

\* ---------------------------------- ClientFactory: the resolver of a dial
\* grpc's resolver registry is empty and no connection was dialed
DialInit ==
    /\ builder = ""
    /\ loops = [k \in ConnIds |-> <<>>]

DialFrame == UNCHANGED <<svars, wvars, rvars, gvars, mvars, xvars, avars, crashed, call>>

\* GetClient under the exclusive lock, step by step.  The second check
\* finds an entry: it is returned and the deferred Unlock runs.
GetClient_SecondHit(c) ==
    /\ pc[c] = "locked"
    /\ SecondCheckHit(arg[c])
    /\ res' = [res EXCEPT ![c] = "conn"]
    /\ conn' = [conn EXCEPT ![c] = clients[arg[c]]]
    /\ disc' = [disc EXCEPT ![c] = "hit2"]
    /\ pc' = [pc EXCEPT ![c] = "done"]
    /\ muWriter' = 0
    /\ UNCHANGED <<fregistry, clients, arg, dialed, crossed, nextConn, live,
                   dialsSince, keyOf, fclosed, dvars>>
    /\ DialFrame

\* createConnection: f.registry.Discover and the existence check; an error
\* or an empty list ends the call
createConnection_Discover(c) ==
    /\ pc[c] = "locked"
    /\ ~SecondCheckHit(arg[c])
    /\ fregistry = "set"
    /\ \E d \in DiscoverResults(arg[c]) :
          /\ disc' = [disc EXCEPT ![c] = d]
          /\ IF d = "err" \/ NotFound(Discover(arg[c]))
                THEN /\ res' = [res EXCEPT ![c] = "err"]
                     /\ pc' = [pc EXCEPT ![c] = "done"]
                     /\ muWriter' = 0
                ELSE /\ pc' = [pc EXCEPT ![c] = "register"]
                     /\ UNCHANGED <<res, muWriter>>
    /\ UNCHANGED <<fregistry, clients, arg, conn, dialed, crossed, nextConn, live,
                   dialsSince, keyOf, fclosed, dvars>>
    /\ DialFrame

\* registerResolver: builder := &discoveryResolverBuilder{serviceName: ...}
BuilderKept(serviceName) == IF builder = "" THEN serviceName ELSE builder
BuilderFor(serviceName) == serviceName

\* createConnection: f.registerResolver(serviceName); resolver.Register
\* replaces whatever builder was registered under the scheme
registerResolver(c) ==
    /\ pc[c] = "register"
    /\ builder' = BuilderFor(arg[c])
    /\ pc' = [pc EXCEPT ![c] = "dial"]
    /\ UNCHANGED <<fregistry, clients, muWriter, arg, res, conn, disc, dialed,
                   crossed, nextConn, live, dialsSince, keyOf, fclosed, loops>>
    /\ DialFrame

\* discoveryResolverBuilder.Build: the resolver takes b.serviceName, not the
\* target, and launches one start goroutine
StartedBy(b) == <<b>>

\* createConnection: grpc.DialContext("discovery:///name") looks the scheme
\* up in the resolver registry and builds the channel's resolver with the
\* builder it finds; then GetClient stores the connection and the deferred
\* Unlock runs.  A failed dial builds nothing.
createConnection_Dial(c) ==
    /\ pc[c] = "dial"
    /\ dialed' = [dialed EXCEPT ![c] = TRUE]
    /\ pc' = [pc EXCEPT ![c] = "done"]
    /\ muWriter' = 0
    /\ \/ /\ nextConn <= MaxDials
          /\ res' = [res EXCEPT ![c] = "conn"]
          /\ conn' = [conn EXCEPT ![c] = nextConn]
          /\ clients' = StoreConn(arg[c], nextConn)
          /\ live' = live \cup {nextConn}
          /\ keyOf' = [keyOf EXCEPT ![nextConn] = arg[c]]
          /\ dialsSince' = [dialsSince EXCEPT ![arg[c]] = @ + 1]
          /\ loops' = [loops EXCEPT ![nextConn] = @ \o StartedBy(builder)]
          /\ nextConn' = nextConn + 1
       \/ /\ res' = [res EXCEPT ![c] = "err"]
          /\ clients' = CacheAfterFailure(arg[c], nextConn)
          /\ UNCHANGED <<conn, live, dialsSince, nextConn, keyOf, loops>>
    /\ UNCHANGED <<fregistry, arg, disc, crossed, fclosed, builder>>
    /\ DialFrame

\* ------------------------------------------------------- Registry.Watch
\* the service name the subscription (and the resolver) is for
WatchedName == "svcA"

\* while a subscription is observed another service keeps one instance
\* registered, and the instances of the watched service come and go
OtherRecords == {[name |-> "svcB", address |-> "10.0.0.5", port |-> 9090]}
WatchedRecords == {r \in Records : r.name = WatchedName}

WatchInit ==
    /\ backend \in {"etcd", "consul"}
    /\ wctx = "none"
    /\ wpc = "idle"
    /\ wret = "none"
    /\ wch = <<>>
    /\ wchClosed = FALSE
    /\ wsub = FALSE
    /\ wevents = 0
    /\ werr = FALSE
    /\ wlocal = NoSnap
    /\ lastIndex = 0
    /\ subSnap = NoSnap
    /\ wfirst = NoSnap
    /\ wlast = NoSnap
    /\ owed = {}

\* what a successful Discover(name) returns now
Snap(name) == [ver |-> storeVer, recs |-> Discover(name)]

\* whether Discover fails for sure: the etcd client honours a cancelled
\* context, the consul client is not given the context
CtxFails(ctx) == backend = "etcd" /\ ctx = "cancelled"

\* <-ctx.Done() is ready
CtxDoneNever(ctx) == FALSE
CtxDone(ctx) == ctx = "cancelled"

\* cancelling a context: nothing is written to the backend, no lease is
\* revoked
CancelRevokes ==
    /\ store' = {x \in store : leaseOf[x] = 0}
    /\ leases' = [l \in DOMAIN leases |->
                     IF leases[l] \in {"kept", "unkept"} THEN "revoked" ELSE leases[l]]
    /\ UNCHANGED leaseID
CancelKeeps == UNCHANGED <<store, leases, leaseID>>

\* Watch: the channel as Watch leaves it, ch <- services
WatchInitialNone(snap) == <<>>
WatchInitial(snap) == <<snap>>

\* Watch, up to the first send: make(chan, 1), Discover, ch <- services;
\* a Discover error makes Watch return (nil, err).
Watch_Discover ==
    /\ ~crashed
    /\ wpc = "idle"
    /\ wctx # "none"
    /\ \/ /\ wret' = "err"
          /\ wpc' = "failed"
          /\ UNCHANGED <<wch, subSnap>>
       \/ /\ ~CtxFails(wctx)
          /\ wch' = WatchInitial(Snap(WatchedName))
          /\ subSnap' = Snap(WatchedName)
          /\ wpc' = "called"
          /\ UNCHANGED wret
    /\ UNCHANGED <<backend, wctx, wchClosed, wsub, wevents, werr, wlocal, lastIndex,
                   wfirst, wlast, owed>>
    /\ UNCHANGED <<svars, fvars, rvars, gvars, pvars>>

\* Watch, the rest: etcd opens the backend watch (client.Watch); the
\* goroutine is started and the channel returned.
Watch_Return ==
    /\ ~crashed
    /\ wpc = "called"
    /\ wret' = "ok"
    /\ wsub' = (backend = "etcd")
    /\ wpc' = IF backend = "etcd" THEN "recv" ELSE "poll"
    /\ UNCHANGED <<backend, wctx, wch, wchClosed, wevents, werr, wlocal, lastIndex,
                   subSnap, wfirst, wlast, owed>>
    /\ UNCHANGED <<svars, fvars, rvars, gvars, pvars>>

\* the goroutine returns: defer close(ch)
WatchExit ==
    /\ wpc' = "exited"
    /\ wchClosed' = TRUE

\* EtcdRegistry.Watch goroutine: for watchResp := range watchCh; an error
\* response is logged and the goroutine returns
Etcd_Recv ==
    /\ ~crashed
    /\ backend = "etcd"
    /\ wpc = "recv"
    /\ \/ /\ werr
          /\ werr' = FALSE
          /\ WatchExit
          /\ UNCHANGED wevents
       \/ /\ ~werr /\ wevents > 0
          /\ \E k \in 1 .. wevents : wevents' = wevents - k
          /\ wpc' = "got"
          /\ UNCHANGED <<werr, wchClosed>>
       \/ /\ ~werr /\ CtxDone(wctx)
          /\ WatchExit
          /\ UNCHANGED <<werr, wevents>>
    /\ UNCHANGED <<backend, wctx, wret, wch, wsub, wlocal, lastIndex, subSnap,
                   wfirst, wlast, owed>>
    /\ UNCHANGED <<svars, fvars, rvars, gvars, pvars>>

\* EtcdRegistry.Watch goroutine: r.Discover after a change; an error is
\* logged and the loop continues
Etcd_Discover ==
    /\ ~crashed
    /\ backend = "etcd"
    /\ wpc = "got"
    /\ \/ /\ wpc' = "recv"
          /\ UNCHANGED wlocal
       \/ /\ ~CtxFails(wctx)
          /\ wlocal' = Snap(WatchedName)
          /\ wpc' = "send"
    /\ UNCHANGED <<backend, wctx, wret, wch, wchClosed, wsub, wevents, werr,
                   lastIndex, subSnap, wfirst, wlast, owed>>
    /\ UNCHANGED <<svars, fvars, rvars, gvars, pvars>>

\* both goroutines: select { case ch <- services: ; case <-ctx.Done(): return }
Watch_Send ==
    /\ ~crashed
    /\ wpc = "send"
    /\ \/ /\ Len(wch) = 0
          /\ wch' = <<wlocal>>
          /\ wlocal' = NoSnap
          /\ wpc' = IF backend = "etcd" THEN "recv" ELSE "poll"
          /\ UNCHANGED wchClosed
       \/ /\ CtxDone(wctx)
          /\ WatchExit
          /\ UNCHANGED <<wch, wlocal>>
    /\ UNCHANGED <<backend, wctx, wret, wsub, wevents, werr, lastIndex, subSnap,
                   wfirst, wlast, owed>>
    /\ UNCHANGED <<svars, fvars, rvars, gvars, pvars>>

\* the index consul reports for the current catalog
ConsulIndex == storeVer + 1

\* ConsulRegistry.Watch goroutine: the context test at the top of the loop;
\* with a live context the blocking query is issued (it is not given ctx)
Consul_Poll ==
    /\ ~crashed
    /\ backend = "consul"
    /\ wpc = "poll"
    /\ \/ /\ CtxDone(wctx)
          /\ WatchExit
       \/ /\ ~CtxDone(wctx)
          /\ wpc' = "query"
          /\ UNCHANGED wchClosed
    /\ UNCHANGED <<backend, wctx, wret, wch, wsub, wevents, werr, wlocal, lastIndex,
                   subSnap, wfirst, wlast, owed>>
    /\ UNCHANGED <<svars, fvars, rvars, gvars, pvars>>

\* ConsulRegistry.Watch goroutine: the blocking query returns, on a change
\* (index > lastIndex) or when WaitTime has passed; an error is logged and
\* followed by a sleep
Consul_Query ==
    /\ ~crashed
    /\ backend = "consul"
    /\ wpc = "query"
    /\ \/ /\ wpc' = "sleep"
          /\ UNCHANGED <<wlocal, lastIndex>>
       \/ /\ lastIndex' = ConsulIndex
          /\ wlocal' = Snap(WatchedName)
          /\ wpc' = "send"
    /\ UNCHANGED <<backend, wctx, wret, wch, wchClosed, wsub, wevents, werr, subSnap,
                   wfirst, wlast, owed>>
    /\ UNCHANGED <<svars, fvars, rvars, gvars, pvars>>

\* ConsulRegistry.Watch goroutine: time.Sleep(5 * time.Second); continue
Consul_Sleep ==
    /\ ~crashed
    /\ backend = "consul"
    /\ wpc = "sleep"
    /\ wpc' = "poll"
    /\ UNCHANGED <<backend, wctx, wret, wch, wchClosed, wsub, wevents, werr, wlocal,
                   lastIndex, subSnap, wfirst, wlast, owed>>
    /\ UNCHANGED <<svars, fvars, rvars, gvars, pvars>>

\* the etcd server answers the open watch with an error response
\* (watchResp.Err() != nil, for example after a compaction)
Etcd_WatchError ==
    /\ ~crashed
    /\ backend = "etcd"
    /\ wsub /\ wctx = "active" /\ wpc \in {"recv", "got", "send"}
    /\ ~werr
    /\ werr' = TRUE
    /\ UNCHANGED <<backend, wctx, wpc, wret, wch, wchClosed, wsub, wevents, wlocal,
                   lastIndex, subSnap, wfirst, wlast, owed>>
    /\ UNCHANGED <<svars, fvars, rvars, gvars, pvars>>

\* an open etcd watch queues one event for a change under the watched prefix
EventsAfter(r) ==
    IF backend = "etcd" /\ wsub /\ wctx = "active" /\ r.name = WatchedName
       /\ wpc \in {"recv", "got", "send"}
    THEN wevents + 1 ELSE wevents

\* another process registers / deregisters an instance while a watch is
\* observed, that is, while the watching process runs
Watch_EnvRegister(r) ==
    /\ ~crashed
    /\ storeVer < MaxChanges
    /\ StorePut(r)
    /\ storeVer' = storeVer + 1
    /\ wevents' = EventsAfter(r)
    /\ owed' = IF wret = "ok" /\ rpc = "none" THEN owed \cup {r} ELSE owed
    /\ UNCHANGED <<backend, wctx, wpc, wret, wch, wchClosed, wsub, werr, wlocal,
                   lastIndex, subSnap, wfirst, wlast>>
    /\ UNCHANGED <<fvars, rvars, gvars, pvars>>

Watch_EnvDeregister(r) ==
    /\ ~crashed
    /\ storeVer < MaxChanges
    /\ StoreDel(r)
    /\ storeVer' = storeVer + 1
    /\ wevents' = EventsAfter(r)
    /\ owed' = owed \ {r}
    /\ UNCHANGED <<backend, wctx, wpc, wret, wch, wchClosed, wsub, werr, wlocal,
                   lastIndex, subSnap, wfirst, wlast>>
    /\ UNCHANGED <<fvars, rvars, gvars, pvars>>

\* a plain consumer: it makes a cancellable context and calls Watch
Client_Watch ==
    /\ wctx = "none"
    /\ wctx' = "active"
    /\ UNCHANGED <<backend, wpc, wret, wch, wchClosed, wsub, wevents, werr, wlocal,
                   lastIndex, subSnap, wfirst, wlast, owed>>
    /\ UNCHANGED <<svars, fvars, rvars, gvars, pvars>>

\* the consumer receives one snapshot from the channel
Client_Receive ==
    /\ wret = "ok"
    /\ Len(wch) > 0
    /\ wch' = Tail(wch)
    /\ wfirst' = IF wfirst = NoSnap THEN Head(wch) ELSE wfirst
    /\ wlast' = Head(wch)
    /\ owed' = owed \ Head(wch).recs
    /\ UNCHANGED <<backend, wctx, wpc, wret, wchClosed, wsub, wevents, werr, wlocal,
                   lastIndex, subSnap>>
    /\ UNCHANGED <<svars, fvars, rvars, gvars, pvars>>

\* the consumer cancels the context it gave to Watch
Client_Cancel ==
    /\ wctx = "active"
    /\ wctx' = "cancelled"
    /\ UNCHANGED <<backend, wpc, wret, wch, wchClosed, wsub, wevents, werr, wlocal,
                   lastIndex, subSnap, wfirst, wlast, owed>>
    /\ CancelKeeps
    /\ UNCHANGED <<storeVer, fvars, rvars, leaseOf, critical, services, owned, lastOp,
                   pvars>>

\* ---------------------------------------------------- discoveryResolver
Resolves == 1 .. MaxResolves

ResolverInit ==
    /\ rpc = "none"
    /\ rctx = "bg"
    /\ rcancel = "nil"
    /\ rsvc = NoSnap
    /\ rclose = "none"
    /\ gpc = [g \in Resolves |-> "none"]
    /\ gsnap = [g \in Resolves |-> NoSnap]
    /\ ccState = [ver |-> -1, addrs |-> {}]
    /\ pushedAfterClose = FALSE

\* updateAddresses: one resolver.Address "address:port" per ServiceInfo
AddrList(recs) == {[address |-> r.address, port |-> r.port] : r \in recs}

\* updateAddresses: the state handed to r.cc.UpdateState
PushNothing(snap) == [ver |-> snap.ver, addrs |-> {}]
PushOf(snap) == [ver |-> snap.ver, addrs |-> AddrList(snap.recs)]

\* discoveryResolverBuilder.Build: the resolver is made with
\* ctx = context.Background() and no cancel, and go r.start() is issued
Build ==
    /\ ~crashed
    /\ rpc = "none"
    /\ rpc' = "spawned"
    /\ rctx' = "bg"
    /\ rcancel' = "nil"
    /\ UNCHANGED <<rsvc, rclose, gpc, gsnap, ccState, pushedAfterClose>>
    /\ UNCHANGED <<svars, fvars, wvars, gvars, pvars>>

\* start: r.ctx, r.cancel = context.WithCancel(context.Background()), and
\* Watch is called with the new context
start_WithCancel ==
    /\ ~crashed
    /\ rpc = "spawned"
    /\ rpc' = "watch"
    /\ rctx' = "w"
    /\ rcancel' = "set"
    /\ wctx' = "active"
    /\ UNCHANGED <<rsvc, rclose, gpc, gsnap, ccState, pushedAfterClose>>
    /\ UNCHANGED <<backend, wpc, wret, wch, wchClosed, wsub, wevents, werr, wlocal,
                   lastIndex, subSnap, wfirst, wlast, owed>>
    /\ UNCHANGED <<svars, fvars, gvars, pvars>>

\* start: Watch has returned; an error is logged and start returns
start_Watched ==
    /\ ~crashed
    /\ rpc = "watch"
    /\ wret # "none"
    /\ rpc' = IF wret = "err" THEN "exited" ELSE "loop"
    /\ UNCHANGED <<rctx, rcancel, rsvc, rclose, gpc, gsnap, ccState, pushedAfterClose>>
    /\ UNCHANGED <<svars, fvars, wvars, gvars, pvars>>

\* start: select { case services, ok := <-ch ; case <-r.ctx.Done() }
start_Select ==
    /\ ~crashed
    /\ rpc = "loop"
    /\ \/ /\ Len(wch) > 0
          /\ rsvc' = Head(wch)
          /\ wch' = Tail(wch)
          /\ rpc' = "update"
       \/ /\ Len(wch) = 0 /\ wchClosed
          /\ rpc' = "exited"
          /\ UNCHANGED <<rsvc, wch>>
       \/ /\ wctx = "cancelled"
          /\ rpc' = "exited"
          /\ UNCHANGED <<rsvc, wch>>
    /\ UNCHANGED <<rctx, rcancel, rclose, gpc, gsnap, ccState, pushedAfterClose>>
    /\ UNCHANGED <<backend, wctx, wpc, wret, wchClosed, wsub, wevents, werr, wlocal,
                   lastIndex, subSnap, wfirst, wlast, owed>>
    /\ UNCHANGED <<svars, fvars, gvars, pvars>>

\* start: r.updateAddresses(services)
start_Update ==
    /\ ~crashed
    /\ rpc = "update"
    /\ ccState' = PushOf(rsvc)
    /\ pushedAfterClose' = (pushedAfterClose \/ rclose = "returned")
    /\ rsvc' = NoSnap
    /\ rpc' = "loop"
    /\ UNCHANGED <<rctx, rcancel, rclose, gpc, gsnap>>
    /\ UNCHANGED <<svars, fvars, wvars, gvars, pvars>>

\* neither start nor the goroutine of ResolveNow defers a recover: a panic
\* raised in one of them unwinds to the top of the goroutine, and the Go
\* runtime then ends the whole process: its goroutines, and the channels
\* and the snapshots they held, are gone
ProcessEnds ==
    /\ crashed' = TRUE
    /\ rpc' = "dead"
    /\ rsvc' = NoSnap
    /\ gpc' = [g \in Resolves |-> "dead"]
    /\ gsnap' = [g \in Resolves |-> NoSnap]
    /\ wpc' = "dead"
    /\ wch' = <<>>
    /\ wevents' = 0
    /\ werr' = FALSE
    /\ wlocal' = NoSnap
    /\ UNCHANGED <<rctx, rcancel, rclose, ccState, pushedAfterClose>>
    /\ UNCHANGED <<backend, wctx, wret, wchClosed, wsub, lastIndex, subSnap, wfirst,
                   wlast, owed>>
    /\ UNCHANGED <<svars, fvars, gvars, mvars, xvars, avars, call, dvars>>

\* start: a panic is raised inside r.updateAddresses(services)
start_Panic ==
    /\ ~crashed
    /\ rpc = "update"
    /\ ProcessEnds

\* ResolveNow: go func() { ... }() is issued and ResolveNow returns
ResolveNow(g) ==
    /\ ~crashed
    /\ rpc # "none"
    /\ rclose = "none"
    /\ gpc[g] = "none"
    /\ gpc' = [gpc EXCEPT ![g] = "spawned"]
    /\ UNCHANGED <<rpc, rctx, rcancel, rsvc, rclose, gsnap, ccState, pushedAfterClose>>
    /\ UNCHANGED <<svars, fvars, wvars, gvars, pvars>>

\* the context a ResolveNow goroutine finds in r.ctx
ResolveCtx == IF rctx = "bg" THEN "active" ELSE wctx

\* the ResolveNow goroutine: r.registry.Discover(r.ctx, r.serviceName); an
\* error is logged and the goroutine returns
ResolveNow_Discover(g) ==
    /\ ~crashed
    /\ gpc[g] = "spawned"
    /\ \/ /\ gpc' = [gpc EXCEPT ![g] = "none"]
          /\ UNCHANGED gsnap
       \/ /\ ~CtxFails(ResolveCtx)
          /\ gsnap' = [gsnap EXCEPT ![g] = Snap(WatchedName)]
          /\ gpc' = [gpc EXCEPT ![g] = "discovered"]
    /\ UNCHANGED <<rpc, rctx, rcancel, rsvc, rclose, ccState, pushedAfterClose>>
    /\ UNCHANGED <<svars, fvars, wvars, gvars, pvars>>

\* the ResolveNow goroutine: r.updateAddresses(services)
ResolveNow_Update(g) ==
    /\ ~crashed
    /\ gpc[g] = "discovered"
    /\ ccState' = PushOf(gsnap[g])
    /\ pushedAfterClose' = (pushedAfterClose \/ rclose = "returned")
    /\ gsnap' = [gsnap EXCEPT ![g] = NoSnap]
    /\ gpc' = [gpc EXCEPT ![g] = "none"]
    /\ UNCHANGED <<rpc, rctx, rcancel, rsvc, rclose>>
    /\ UNCHANGED <<svars, fvars, wvars, gvars, pvars>>

\* the ResolveNow goroutine: a panic is raised inside r.updateAddresses
ResolveNow_Panic(g) ==
    /\ ~crashed
    /\ gpc[g] = "discovered"
    /\ ProcessEnds

\* discoveryResolver.Close: if r.cancel != nil { r.cancel() }
Resolver_Close ==
    /\ ~crashed
    /\ rpc # "none"
    /\ rclose = "none"
    /\ rclose' = "returned"
    /\ wctx' = IF rcancel = "set" THEN "cancelled" ELSE wctx
    /\ UNCHANGED <<rpc, rctx, rcancel, rsvc, gpc, gsnap, ccState, pushedAfterClose>>
    /\ UNCHANGED <<backend, wpc, wret, wch, wchClosed, wsub, wevents, werr, wlocal,
                   lastIndex, subSnap, wfirst, wlast, owed>>
    /\ CancelKeeps
    /\ UNCHANGED <<storeVer, fvars, leaseOf, critical, services, owned, lastOp, pvars>>

\* ------------------------------------------ Registry and ServiceManager
LeaseIds == 1 .. MaxLeases

NoRec == [name |-> "", address |-> "", port |-> 0]
NoOp  == [op |-> "none", rec |-> NoRec, err |-> "none", was |-> FALSE,
          set |-> {}, tried |-> {}, failed |-> {}]

\* NewEtcdRegistry / NewConsulRegistry, NewServiceManager
RegistryInit ==
    /\ leases = [l \in LeaseIds |-> "none"]
    /\ leaseOf = [r \in Records |-> 0]
    /\ leaseID = 0
    /\ critical = {}
    /\ services = {}
    /\ owned = {}
    /\ lastOp = NoOp

\* the Registry and its backend as one value, and its assignment
Reg == [store |-> store, leases |-> leases, leaseOf |-> leaseOf,
        leaseID |-> leaseID, critical |-> critical]

SetReg(g) ==
    /\ store' = g.store
    /\ leases' = g.leases
    /\ leaseOf' = g.leaseOf
    /\ leaseID' = g.leaseID
    /\ critical' = g.critical

\* buildServiceKey (etcd) and serviceID (consul): the backend identifier of
\* a record is made of its name, address and port
ServiceKey(r) == <<r.name, r.address, r.port>>

\* client.Put / Agent().ServiceRegister: one entry per identifier
BackendPutNothing(s, r) == s
BackendPut(s, r) == {x \in s : ServiceKey(x) # ServiceKey(r)} \cup {r}

\* client.Delete / Agent().ServiceDeregister
BackendDeleteNothing(s, r) == s
BackendDelete(s, r) == {x \in s : ServiceKey(x) # ServiceKey(r)}

LeaseAlive(g, l) == l # 0 /\ g.leases[l] \in {"kept", "unkept"}
FreeLeases(g) == {l \in LeaseIds : g.leases[l] = "none"}
NewLease(g) == CHOOSE l \in FreeLeases(g) : \A m \in FreeLeases(g) : l <= m

\* how a Register call can go: on etcd Grant, Put or KeepAlive may fail
RegisterOutcomes ==
    IF backend = "etcd" THEN {"grantErr", "putErr", "kaErr", "ok"} ELSE {"err", "ok"}

\* EtcdRegistry.Register: Grant (r.leaseID = lease.ID), Put with the lease,
\* KeepAlive with the caller's context
EtcdRegister(g, r, out) ==
    IF out = "grantErr" THEN g
    ELSE LET l == NewLease(g) IN
         IF out = "putErr"
         THEN [g EXCEPT !.leaseID = l, !.leases[l] = "unkept"]
         ELSE [g EXCEPT !.leaseID = l,
                        !.leases[l] = IF out = "ok" THEN "kept" ELSE "unkept",
                        !.store = BackendPut(@, r),
                        !.leaseOf[r] = l]

\* ConsulRegistry.Register: the service is registered with a gRPC health
\* check; a check starts critical, a check that exists keeps its status
ConsulRegister(g, r, out) ==
    IF out = "err" \/ r \in g.store THEN g
    ELSE [g EXCEPT !.critical = BackendPut(@, r)]

Register(g, r, out) ==
    IF backend = "etcd" THEN EtcdRegister(g, r, out) ELSE ConsulRegister(g, r, out)

RegisterErr(out) == IF out = "ok" THEN "none" ELSE out

\* EtcdRegistry.Deregister: Revoke(r.leaseID) when r.leaseID != 0; a failure
\* is logged.  Revoking a lease deletes the keys written with it.
EtcdRevoke(g) ==
    IF LeaseAlive(g, g.leaseID)
    THEN [g EXCEPT !.leases[g.leaseID] = "revoked",
                   !.store = {x \in @ : g.leaseOf[x] # g.leaseID}]
    ELSE g

\* EtcdRegistry.Deregister: the revocation, then Delete(key)
EtcdDeregister(g, r, fail) ==
    IF fail THEN g
    ELSE [EtcdRevoke(g) EXCEPT !.store = BackendDelete(@, r)]

\* ConsulRegistry.Deregister: Agent().ServiceDeregister(serviceID)
ConsulDeregister(g, r, fail) ==
    IF fail THEN g
    ELSE [g EXCEPT !.store = BackendDelete(@, r), !.critical = BackendDelete(@, r)]

Deregister(g, r, fail) ==
    IF backend = "etcd" THEN EtcdDeregister(g, r, fail) ELSE ConsulDeregister(g, r, fail)

\* the error Deregister returns: the backend was not reached, or (consul)
\* the agent does not know the service ID; etcd deletes an absent key
\* without error
DeregisterErr(g, r, fail) ==
    IF fail THEN "unreachable"
    ELSE IF backend = "consul" /\ r \notin (g.store \cup g.critical) THEN "unknown"
    ELSE "none"

\* RegisterService: an error of Registry.Register is returned before the
\* store into sm.services
RegisterStoresAlways(out) == TRUE
RegisterStores(out) == out = "ok"

\* ServiceManager.RegisterService
RegisterService(r) ==
    /\ \E out \in RegisterOutcomes :
          /\ (backend = "etcd" /\ out # "grantErr") => FreeLeases(Reg) # {}
          /\ SetReg(Register(Reg, r, out))
          /\ services' = IF RegisterStores(out) THEN services \cup {r} ELSE services
          /\ owned' = IF out = "ok" THEN owned \cup {r}
                       ELSE IF out = "kaErr" THEN owned \ {r} ELSE owned
          /\ lastOp' = [NoOp EXCEPT !.op = "RegisterService", !.rec = r,
                                    !.err = RegisterErr(out),
                                    !.was = (r \in store), !.set = services]
    /\ UNCHANGED <<storeVer, fvars, wvars, rvars, pvars>>

\* ServiceManager.DeregisterService: an error of Registry.Deregister is
\* returned before the delete from sm.services
DeregisterService(r) ==
    /\ \E fail \in BOOLEAN :
          LET err == DeregisterErr(Reg, r, fail) IN
          /\ SetReg(Deregister(Reg, r, fail))
          /\ services' = IF err = "none" THEN services \ {r} ELSE services
          /\ owned' = IF fail THEN owned ELSE owned \ {r}
          /\ lastOp' = [NoOp EXCEPT !.op = "DeregisterService", !.rec = r,
                                    !.err = err,
                                    !.was = (r \in store \cup critical),
                                    !.set = services]
    /\ UNCHANGED <<storeVer, fvars, wvars, rvars, pvars>>

\* DeregisterAll: an error of one Deregister is logged and the loop goes on
AbortOnError(err) == err = "none"
ContinueAfter(err) == TRUE

\* DeregisterAll: for _, service := range sm.services { Deregister }.  F is
\* the set of records whose call does not reach the backend.  The result
\* does not depend on the order the map is ranged in.
RECURSIVE DeregisterEach(_, _, _)
DeregisterEach(g, todo, F) ==
    IF todo = {} THEN [reg |-> g, tried |-> {}, failed |-> {}]
    ELSE LET r    == CHOOSE x \in todo : TRUE
             err  == DeregisterErr(g, r, r \in F)
             h    == Deregister(g, r, r \in F)
             rest == IF ContinueAfter(err)
                        THEN DeregisterEach(h, todo \ {r}, F)
                        ELSE [reg |-> h, tried |-> {}, failed |-> {}]
         IN  [reg    |-> rest.reg,
              tried  |-> rest.tried \cup {r},
              failed |-> rest.failed \cup (IF err = "none" THEN {} ELSE {r})]

\* ServiceManager.DeregisterAll: the loop, then sm.services = make(...), and
\* nil is returned
DeregisterAll ==
    /\ \E F \in SUBSET services :
          LET done == DeregisterEach(Reg, services, F) IN
          /\ SetReg(done.reg)
          /\ services' = {}
          /\ owned' = owned \ (done.tried \ F)
          /\ lastOp' = [NoOp EXCEPT !.op = "DeregisterAll", !.set = services,
                                    !.tried = done.tried, !.failed = done.failed]
    /\ UNCHANGED <<storeVer, fvars, wvars, rvars, pvars>>

\* Registry.Discover: the error it returns.  etcd returns the (nil) slice it
\* filled from resp.Kvs, consul the slice it filled from the health entries;
\* an error is returned only when the Get / the health query failed.
DiscoverErrOnEmpty(list, fail) ==
    IF fail THEN "unreachable" ELSE IF list = {} THEN "notfound" ELSE "none"
DiscoverErr(list, fail) == IF fail THEN "unreachable" ELSE "none"

\* ServiceManager.DiscoverServices: Registry.Discover(ctx, serviceName)
DiscoverServices(n) ==
    /\ \E fail \in BOOLEAN :
          LET list == IF fail THEN {} ELSE Discover(n) IN
          lastOp' = [NoOp EXCEPT !.op = "DiscoverServices",
                                 !.rec = [NoRec EXCEPT !.name = n],
                                 !.err = DiscoverErr(list, fail),
                                 !.was = (Discover(n) # {}),
                                 !.set = list]
    /\ UNCHANGED <<leases, leaseOf, leaseID, critical, services, owned>>
    /\ UNCHANGED <<svars, fvars, wvars, rvars, pvars>>

\* the context that was given to Register ends (Application.start: defer
\* cancel()): the KeepAlive of the lease stops
RegisterCtx_Done(l) ==
    /\ leases[l] = "kept"
    /\ leases' = [leases EXCEPT ![l] = "unkept"]
    /\ UNCHANGED <<leaseOf, leaseID, critical, services, owned, lastOp>>
    /\ UNCHANGED <<svars, fvars, wvars, rvars, pvars>>

\* etcd: a lease that is not renewed expires after its TTL (30 s), and the
\* keys written with it are deleted
Lease_Expire(l) ==
    /\ leases[l] = "unkept"
    /\ leases' = [leases EXCEPT ![l] = "expired"]
    /\ store' = {x \in store : leaseOf[x] # l}
    /\ UNCHANGED <<leaseOf, leaseID, critical, services, owned, lastOp>>
    /\ UNCHANGED <<storeVer, fvars, wvars, rvars, pvars>>

\* consul: the gRPC health check of a registered service passes, and
\* Health().Service(name, "", true, ...) begins to list it
Consul_CheckPass(r) ==
    /\ r \in critical
    /\ critical' = critical \ {r}
    /\ store' = BackendPut(store, r)
    /\ UNCHANGED <<leases, leaseOf, leaseID, services, owned, lastOp>>
    /\ UNCHANGED <<storeVer, fvars, wvars, rvars, pvars>>

\* ------------------------------------- ServiceManager, concurrent callers
\* goroutines that call one ServiceManager; sm.services is a plain map and
\* the struct holds no mutex, so a call is a Registry call followed by an
\* unguarded access to the map
Threads == 1 .. NumThreads

ManagerInit ==
    /\ mpc = [t \in Threads |-> "idle"]
    /\ mrec = [t \in Threads |-> NoRec]
    /\ kept = {}

\* RegisterService: sm.registry.Register(ctx, service); an error is returned
M_Register(t, r) ==
    /\ ~crashed
    /\ mpc[t] = "idle"
    /\ \E out \in RegisterOutcomes :
          /\ (backend = "etcd" /\ out # "grantErr") => FreeLeases(Reg) # {}
          /\ SetReg(Register(Reg, r, out))
          /\ mpc' = [mpc EXCEPT ![t] = IF RegisterStores(out) THEN "store" ELSE "idle"]
          /\ mrec' = [mrec EXCEPT ![t] = IF RegisterStores(out) THEN r ELSE NoRec]
          /\ kept' = IF out = "ok" THEN kept \cup {r} ELSE kept
    /\ UNCHANGED <<services, owned, lastOp>>
    /\ UNCHANGED <<storeVer, fvars, wvars, rvars, xvars, avars, crashed, call, dvars>>

\* RegisterService: sm.services[key] = service, return nil
M_Register_Store(t) ==
    /\ ~crashed
    /\ mpc[t] = "store"
    /\ services' = services \cup {mrec[t]}
    /\ mpc' = [mpc EXCEPT ![t] = "idle"]
    /\ mrec' = [mrec EXCEPT ![t] = NoRec]
    /\ UNCHANGED <<leases, leaseOf, leaseID, critical, owned, lastOp, kept>>
    /\ UNCHANGED <<svars, fvars, wvars, rvars, xvars, avars, crashed, call, dvars>>

\* DeregisterService: sm.registry.Deregister(ctx, service); an error is
\* returned
M_Deregister(t, r) ==
    /\ ~crashed
    /\ mpc[t] = "idle"
    /\ \E fail \in BOOLEAN :
          LET err == DeregisterErr(Reg, r, fail) IN
          /\ SetReg(Deregister(Reg, r, fail))
          /\ mpc' = [mpc EXCEPT ![t] = IF err = "none" THEN "delete" ELSE "idle"]
          /\ mrec' = [mrec EXCEPT ![t] = IF err = "none" THEN r ELSE NoRec]
    /\ kept' = kept \ {r}
    /\ UNCHANGED <<services, owned, lastOp>>
    /\ UNCHANGED <<storeVer, fvars, wvars, rvars, xvars, avars, crashed, call, dvars>>

\* DeregisterService: delete(sm.services, key), return nil
M_Deregister_Delete(t) ==
    /\ ~crashed
    /\ mpc[t] = "delete"
    /\ services' = services \ {mrec[t]}
    /\ mpc' = [mpc EXCEPT ![t] = "idle"]
    /\ mrec' = [mrec EXCEPT ![t] = NoRec]
    /\ UNCHANGED <<leases, leaseOf, leaseID, critical, owned, lastOp, kept>>
    /\ UNCHANGED <<svars, fvars, wvars, rvars, xvars, avars, crashed, call, dvars>>

\* DeregisterAll: the loop over sm.services, each error logged
M_DeregisterAll_Range(t) ==
    /\ ~crashed
    /\ mpc[t] = "idle"
    /\ \E F \in SUBSET services :
          SetReg(DeregisterEach(Reg, services, F).reg)
    /\ kept' = kept \ services
    /\ mpc' = [mpc EXCEPT ![t] = "clear"]
    /\ UNCHANGED <<services, owned, lastOp, mrec>>
    /\ UNCHANGED <<storeVer, fvars, wvars, rvars, xvars, avars, crashed, call, dvars>>

\* DeregisterAll: sm.services = make(map[string]*ServiceInfo), return nil
M_DeregisterAll_Clear(t) ==
    /\ ~crashed
    /\ mpc[t] = "clear"
    /\ services' = {}
    /\ mpc' = [mpc EXCEPT ![t] = "idle"]
    /\ UNCHANGED <<leases, leaseOf, leaseID, critical, owned, lastOp, mrec, kept>>
    /\ UNCHANGED <<svars, fvars, wvars, rvars, xvars, avars, crashed, call, dvars>>

\* two goroutines write the map at the same time: the Go runtime detects it
\* ("fatal error: concurrent map writes") and ends the process
M_MapFault(t) ==
    /\ ~crashed
    /\ mpc[t] \in {"store", "delete"}
    /\ \E u \in Threads \ {t} : mpc[u] \in {"store", "delete"}
    /\ crashed' = TRUE
    /\ UNCHANGED <<svars, fvars, wvars, rvars, gvars, mvars, xvars, avars, call, dvars>>

\* ------------------------------------------------------------------ Server
NoSOp == [op |-> "none", err |-> "none", was |-> FALSE]

\* server.New
ServerInit ==
    /\ started = FALSE
    /\ listeners = 0
    /\ servers = 0
    /\ svcs = 0
    /\ health = "unset"
    /\ up = FALSE
    /\ sOp = NoSOp

\* Start: if s.started { return fmt.Errorf("server already started") }
AlreadyStartedNever(st) == FALSE
AlreadyStarted(st) == st

\* Start: s.started = true is reached only after the listener, the options
\* and the grpc.Server were made
StartedAlways(out) == TRUE
StartedAfter(out) == out = "ok"

\* how a Start on a stopped server can go: net.Listen fails, or
\* buildServerOptions fails (TLS enabled, certificate missing or unreadable)
\* after the listener was opened and stored, or it succeeds
StartOutcomes == {"listenErr", "optionsErr", "ok"}

\* Server.Start, under s.mu
Server_Start ==
    /\ IF AlreadyStarted(started)
          THEN /\ sOp' = [op |-> "Start", err |-> "already", was |-> started]
               /\ UNCHANGED <<started, listeners, servers, health, up>>
          ELSE \E out \in StartOutcomes :
               /\ out # "listenErr" => listeners < MaxListeners
               /\ out = "ok" => servers < MaxStarts
               /\ listeners' = IF out = "listenErr" THEN listeners ELSE listeners + 1
               /\ servers' = IF out = "ok" THEN servers + 1 ELSE servers
               /\ started' = StartedAfter(out)
               /\ health' = IF out = "ok" THEN "serving" ELSE health
               /\ up' = IF out = "ok" THEN TRUE ELSE up
               /\ sOp' = [op |-> "Start", err |-> IF out = "ok" THEN "none" ELSE out,
                          was |-> started]
    /\ UNCHANGED svcs
    /\ UNCHANGED <<svars, fvars, wvars, rvars, gvars, mvars, avars, crashed, call, dvars>>

\* Server.Stop, under s.mu: if !s.started { return nil }; NOT_SERVING,
\* GracefulStop (or Stop when ctx ends first), which closes the listener the
\* server serves on; s.started = false; return nil
Server_Stop ==
    /\ IF ~started
          THEN UNCHANGED <<started, listeners, health>>
          ELSE /\ started' = FALSE
               /\ listeners' = listeners - 1
               /\ health' = "notserving"
    /\ up' = FALSE
    /\ sOp' = [op |-> "Stop", err |-> "none", was |-> started]
    /\ UNCHANGED <<servers, svcs>>
    /\ UNCHANGED <<svars, fvars, wvars, rvars, gvars, mvars, avars, crashed, call, dvars>>

\* RegisterService: if s.started { Warn; return }
AppendableAlways(st) == TRUE
Appendable(st) == ~st

\* Server.RegisterService, under s.mu
Server_RegisterService ==
    /\ IF Appendable(started)
          THEN /\ svcs < MaxServices
               /\ svcs' = svcs + 1
          ELSE UNCHANGED svcs
    /\ sOp' = [op |-> "RegisterService", err |-> "none", was |-> started]
    /\ UNCHANGED <<started, listeners, servers, health, up>>
    /\ UNCHANGED <<svars, fvars, wvars, rvars, gvars, mvars, avars, crashed, call, dvars>>

\* Server.IsHealthy
IsHealthy == started

\* ------------------------------------------------------------ shutdown
\* the cleanup steps of Application.shutdown
Steps == {"http", "deregister", "factory", "grpc"}

\* the modules autoRegisterModules may register: GrpcServerModule,
\* MetricsModule, DiscoveryModule
NumModules == 3

ShutdownIdle ==
    /\ apc = "idle"
    /\ ares = "none"
    /\ gi = -1
    /\ gres = "none"
    /\ si = 1
    /\ startLog = <<>>
    /\ stopLog = <<>>
    /\ mstarted = {}
    /\ visible = FALSE
    /\ dereg = "none"

\* every component is present and every module enabled
ShutdownInit ==
    /\ ShutdownIdle
    /\ steps = [s \in Steps |-> "none"]
    /\ mods = [i \in 1 .. NumModules |-> [enabled |-> TRUE, stop |-> "none"]]

\* Application.shutdown: what it returns, whatever the steps returned
ShutdownResultFirstErr(errs) == IF errs = {} THEN "nil" ELSE "err"
ShutdownResult(errs) == "nil"

\* Application.shutdown: for each component that is not nil, wg.Add(1) and
\* go func() { ... }(); then the goroutine that waits for wg
App_Shutdown_Spawn ==
    /\ apc = "idle"
    /\ apc' = "wait"
    /\ steps' = [s \in Steps |-> IF steps[s] = "nil" THEN "nil" ELSE "spawned"]
    /\ UNCHANGED <<ares, mods, gi, gres, savars>>
    /\ UNCHANGED <<svars, fvars, wvars, rvars, gvars, mvars, xvars, crashed, call, dvars>>

\* one cleanup goroutine: the component's call returns nil or an error, the
\* error is logged, wg.Done()
App_Step_Run(s) ==
    /\ steps[s] = "spawned"
    /\ \E out \in {"ok", "err"} : steps' = [steps EXCEPT ![s] = out]
    /\ UNCHANGED <<apc, ares, mods, gi, gres, savars>>
    /\ UNCHANGED <<svars, fvars, wvars, rvars, gvars, mvars, xvars, crashed, call, dvars>>

\* Application.shutdown: select { case <-done }: every goroutine has finished
App_Shutdown_Done ==
    /\ apc = "wait"
    /\ \A s \in Steps : steps[s] \in {"nil", "ok", "err"}
    /\ apc' = "returned"
    /\ ares' = ShutdownResult({s \in Steps : steps[s] = "err"})
    /\ UNCHANGED <<steps, mods, gi, gres, savars>>
    /\ UNCHANGED <<svars, fvars, wvars, rvars, gvars, mvars, xvars, crashed, call, dvars>>

\* Application.shutdown: select { case <-ctx.Done() }: shutdownTimeout has
\* passed, a warning is logged
App_Shutdown_Timeout ==
    /\ apc = "wait"
    /\ apc' = "returned"
    /\ ares' = ShutdownResult({s \in Steps : steps[s] = "err"})
    /\ UNCHANGED <<steps, mods, gi, gres, savars>>
    /\ UNCHANGED <<svars, fvars, wvars, rvars, gvars, mvars, xvars, crashed, call, dvars>>

\* autoRegisterModules: the GrpcServerModule, then the MetricsModule, then
\* the DiscoveryModule
AutoModulesDiscoveryFirst == <<"discovery", "metrics", "grpc-server">>
AutoModules == <<"grpc-server", "metrics", "discovery">>

\* GrpcServerModule.Enabled returns true; the other two follow the
\* configuration
ModulesInit ==
    /\ Len(mods) = NumModules
    /\ \A i \in 1 .. NumModules :
          /\ mods[i].stop = "none"
          /\ AutoModules[i] = "grpc-server" => mods[i].enabled

StartFrame ==
    UNCHANGED <<svars, fvars, wvars, rvars, gvars, mvars, xvars, crashed, call, dvars>>

\* what a module's Start does to the registry: DiscoveryModule.Start calls
\* RegisterService and goes on when it fails
VisibleAfterStart(kind, reg) ==
    IF kind = "discovery" THEN reg = "ok" ELSE visible

\* GrpcApplication.startModules, one turn of the loop: a module that is not
\* enabled is skipped; module.Start(ctx) sets the module's started flag and
\* returns nil (GrpcServerModule launches Serve, MetricsModule its HTTP
\* server, DiscoveryModule registers the record)
Grpc_Start_Step ==
    /\ si \in 1 .. Len(mods)
    /\ si' = si + 1
    /\ IF mods[si].enabled
          THEN /\ startLog' = Append(startLog, si)
               /\ mstarted' = mstarted \cup {si}
               /\ \E reg \in {"ok", "err"} :
                     visible' = VisibleAfterStart(AutoModules[si], reg)
          ELSE UNCHANGED <<startLog, mstarted, visible>>
    /\ UNCHANGED <<apc, steps, ares, mods, gi, gres, stopLog, dereg>>
    /\ StartFrame

\* GrpcApplication.shutdown, after startModules has returned and the signal
\* has arrived: i := len(app.modules) - 1
Grpc_Shutdown_Begin ==
    /\ si = Len(mods) + 1
    /\ gi = -1
    /\ gi' = Len(mods)
    /\ UNCHANGED <<apc, steps, ares, mods, gres, savars>>
    /\ StartFrame

\* GrpcApplication.shutdown: module := app.modules[i]
ModuleAtTurnForward(i) == Len(mods) + 1 - i
ModuleAtTurn(i) == i

\* what module.Stop returns: only MetricsModule.Stop has an error return
\* (httpServer.Shutdown)
StopOutcomes(kind) == IF kind = "metrics" THEN {"ok", "err"} ELSE {"ok"}

\* DiscoveryModule.Stop: DeregisterAll, whose failure is logged
DeregOutcomes(kind) ==
    IF kind = "discovery" /\ visible THEN {"ok", "failed"} ELSE {"none"}

\* GrpcApplication.shutdown, one turn of the loop: a module that is not
\* enabled is skipped; module.Stop(ctx) is called and its error logged.
\* MetricsModule.Stop returns its error before it clears started;
\* DiscoveryModule.Stop clears started and returns nil whether or not the
\* record could be deregistered.
Grpc_Shutdown_Step ==
    /\ gi >= 1
    /\ gi' = gi - 1
    /\ LET m == ModuleAtTurn(gi)
           kind == AutoModules[m]
       IN  IF mods[m].enabled
           THEN /\ stopLog' = Append(stopLog, m)
                /\ \E out \in StopOutcomes(kind), d \in DeregOutcomes(kind) :
                      /\ mods' = [mods EXCEPT ![m].stop = out]
                      /\ mstarted' = IF out = "ok" THEN mstarted \ {m} ELSE mstarted
                      /\ dereg' = IF d = "none" THEN dereg ELSE d
                      /\ visible' = IF d = "ok" THEN FALSE ELSE visible
           ELSE UNCHANGED <<mods, stopLog, mstarted, dereg, visible>>
    /\ UNCHANGED <<apc, steps, ares, gres, si, startLog>>
    /\ StartFrame

\* GrpcApplication.shutdown: return nil
Grpc_Shutdown_Return ==
    /\ gi = 0
    /\ gres = "none"
    /\ gres' = "nil"
    /\ UNCHANGED <<apc, steps, ares, mods, gi, savars>>
    /\ StartFrame

\* --------------------------------------- constructors and key builders
\* text is a sequence of characters; the names and addresses of the records
\* whose identifiers are compared are made of letters and of the separators
\* that occur in host names, paths and host:port pairs
Letters == {"a", "b"}
Separators == {"-", "/", ":"}
Chars == Letters \cup Separators

RECURSIVE TextsOfLen(_)
TextsOfLen(n) ==
    IF n = 0 THEN {<<>>}
    ELSE {t \o <<c>> : t \in TextsOfLen(n - 1), c \in Chars}

\* a name or an address begins and ends with a letter and has no two
\* separators in a row
WellFormed(t) ==
    /\ t[1] \in Letters
    /\ t[Len(t)] \in Letters
    /\ \A i \in 1 .. Len(t) - 1 : t[i] \in Letters \/ t[i + 1] \in Letters

Texts == {t \in UNION {TextsOfLen(n) : n \in 1 .. MaxLen} : WellFormed(t)}

KeyRecords == [name : Texts, address : Texts, port : Ports]

\* fmt's %d
DigitChar(d) == <<"0", "1", "2", "3", "4", "5", "6", "7", "8", "9">>[d + 1]

RECURSIVE Decimal(_)
Decimal(p) ==
    IF p < 10 THEN <<DigitChar(p)>>
    ELSE Decimal(p \div 10) \o <<DigitChar(p % 10)>>

\* path.Clean, for paths without "." and ".." elements: runs of slashes
\* become one slash and a trailing slash is dropped, except in the root
RECURSIVE Squeeze(_)
Squeeze(t) ==
    IF Len(t) < 2 THEN t
    ELSE IF t[1] = "/" /\ t[2] = "/" THEN Squeeze(Tail(t))
    ELSE <<t[1]>> \o Squeeze(Tail(t))

Clean(t) ==
    LET q == Squeeze(t) IN
    IF Len(q) > 1 /\ q[Len(q)] = "/" THEN SubSeq(q, 1, Len(q) - 1) ELSE q

\* path.Join: the non-empty elements, joined by slashes, cleaned
RECURSIVE Slashed(_)
Slashed(elems) ==
    IF elems = <<>> THEN <<>>
    ELSE IF Head(elems) = <<>> THEN Slashed(Tail(elems))
    ELSE LET rest == Slashed(Tail(elems)) IN
         IF rest = <<>> THEN Head(elems) ELSE Head(elems) \o <<"/">> \o rest

Join(elems) == IF Slashed(elems) = <<>> THEN <<>> ELSE Clean(Slashed(elems))

\* config: Discovery.Namespace is "/grpc-kit" by default
Namespace == <<"/", "grpc-kit">>

\* EtcdRegistry.buildServiceKey
buildServiceKey(serviceName, address, port) ==
    Join(<<Namespace, <<"services">>, serviceName, address \o <<":">> \o Decimal(port)>>)

\* EtcdRegistry.buildServicePrefix
buildServicePrefix(serviceName) ==
    Join(<<Namespace, <<"services">>, serviceName>>) \o <<"/">>

\* ConsulRegistry.Register / Deregister: fmt.Sprintf("%s-%s-%d", ...)
serviceID(r) == r.name \o <<"-">> \o r.address \o <<"-">> \o Decimal(r.port)

\* ServiceManager: fmt.Sprintf("%s:%s:%d", ...)
ManagerKey(r) == r.name \o <<":">> \o r.address \o <<":">> \o Decimal(r.port)

\* clientv3.WithPrefix: the keys that begin with the prefix
HasPrefix(key, prefix) ==
    Len(key) >= Len(prefix) /\ SubSeq(key, 1, Len(prefix)) = prefix

\* the type tags a configuration may carry
Tags == {"etcd", "consul", "", "ETCD", "zookeeper", "nacos"}

NoCall == [op |-> "none", tag |-> "", reg |-> "nil", err |-> <<>>, clients |-> 0,
           rec |-> [name |-> <<>>, address |-> <<>>, port |-> 0],
           etcdKey |-> <<>>, consulID |-> <<>>, managerKey |-> <<>>,
           prefix |-> <<>>]

\* NewRegistry: the switch on cfg.Type
SupportedAny(tag) == TRUE
Supported(tag) == tag \in {"etcd", "consul"}

\* NewRegistry: NewEtcdRegistry / NewConsulRegistry make the backend client
\* and may fail; any other tag returns nil and
\* fmt.Errorf("unsupported discovery type: %s", cfg.Type)
Call_NewRegistry(tag) ==
    /\ call.op = "none"
    /\ \/ /\ Supported(tag)
          /\ \E ok \in BOOLEAN :
                call' = [NoCall EXCEPT !.op = "NewRegistry", !.tag = tag,
                            !.reg = IF ok THEN (IF tag = "consul" THEN "consul" ELSE "etcd")
                                    ELSE "nil",
                            !.err = IF ok THEN <<>> ELSE <<"failed to create client">>,
                            !.clients = IF ok THEN 1 ELSE 0]
       \/ /\ ~Supported(tag)
          /\ call' = [NoCall EXCEPT !.op = "NewRegistry", !.tag = tag,
                         !.err = <<"unsupported discovery type: ", tag>>]
    /\ UNCHANGED <<svars, fvars, wvars, rvars, gvars, mvars, xvars, avars, crashed, dvars>>

\* a record is registered: the identifiers the three layers build for it
Call_Register(r) ==
    /\ call.op = "none"
    /\ call' = [NoCall EXCEPT !.op = "Register", !.rec = r,
                   !.etcdKey = buildServiceKey(r.name, r.address, r.port),
                   !.consulID = serviceID(r),
                   !.managerKey = ManagerKey(r)]
    /\ UNCHANGED <<svars, fvars, wvars, rvars, gvars, mvars, xvars, avars, crashed, dvars>>

\* EtcdRegistry.Discover / Watch: the prefix that is listed / watched
Call_Discover(n) ==
    /\ call.op = "none"
    /\ call' = [NoCall EXCEPT !.op = "Discover", !.rec.name = n,
                   !.prefix = buildServicePrefix(n)]
    /\ UNCHANGED <<svars, fvars, wvars, rvars, gvars, mvars, xvars, avars, crashed, dvars>>

\* ------------------------------------------------------- specifications
Init ==
    /\ storeVer = 0
    /\ FactoryInit
    /\ WatchInit
    /\ ResolverInit
    /\ ManagerInit
    /\ ServerInit
    /\ ShutdownIdle
    /\ crashed = FALSE
    /\ call = NoCall
    /\ DialInit

\* while the factory is observed one instance of each service comes and goes
FactoryRecords == {r \in Records : r.port = 9090}

NextFactory ==
    \/ \E c \in Callers, n \in Names : GetClient_Read(c, n)
    \/ \E c \in Callers : GetClient_Lock(c)
    \/ \E c \in Callers : GetClient_Locked(c)
    \/ \E c \in Callers : Factory_Close_Lock(c)
    \/ \E c \in Callers : Factory_Close_Locked(c)
    \/ \E c \in Callers : Conn_Close(c)
    \/ \E c \in Callers : Caller_Return(c)
    \/ \E r \in FactoryRecords : Factory_EnvRegister(r)
    \/ \E r \in FactoryRecords : Factory_EnvDeregister(r)

\* callers of GetClient for several names on one ClientFactory with a
\* registry, the locked part of GetClient taken step by step
NextDial ==
    \/ \E c \in Callers, n \in Names : GetClient_Read(c, n)
    \/ \E c \in Callers : GetClient_Lock(c)
    \/ \E c \in Callers : GetClient_SecondHit(c)
    \/ \E c \in Callers : createConnection_Discover(c)
    \/ \E c \in Callers : registerResolver(c)
    \/ \E c \in Callers : createConnection_Dial(c)
    \/ \E c \in Callers : Caller_Return(c)
    \/ \E r \in FactoryRecords : Factory_EnvRegister(r)
    \/ \E r \in FactoryRecords : Factory_EnvDeregister(r)

\* a ClientFactory over one backend
InitFactory == Init /\ store = {} /\ backend = "etcd" /\ RegistryInit /\ ShutdownInit

SpecFactory == InitFactory /\ [][NextFactory]_vars

InitDial == InitFactory /\ fregistry = "set"

SpecDial == InitDial /\ [][NextDial]_vars

WatchStep ==
    \/ Watch_Discover
    \/ Watch_Return
    \/ Etcd_Recv
    \/ Etcd_Discover
    \/ Watch_Send
    \/ Consul_Poll
    \/ Consul_Query
    \/ Consul_Sleep
    \/ Etcd_WatchError

NextWatch ==
    \/ WatchStep
    \/ \E r \in WatchedRecords : Watch_EnvRegister(r)
    \/ \E r \in WatchedRecords : Watch_EnvDeregister(r)
    \/ Client_Watch
    \/ Client_Receive
    \/ Client_Cancel

\* one Watch subscription on either backend
\* the process that watches svcA has registered its own svcB instance
RegisteredOther ==
    /\ leases = [l \in LeaseIds |-> IF backend = "etcd" /\ l = 1 THEN "kept" ELSE "none"]
    /\ leaseOf = [r \in Records |->
                    IF backend = "etcd" /\ r \in OtherRecords THEN 1 ELSE 0]
    /\ leaseID = IF backend = "etcd" THEN 1 ELSE 0
    /\ critical = {}
    /\ services = OtherRecords
    /\ owned = OtherRecords
    /\ lastOp = NoOp

InitWatch ==
    Init /\ store = OtherRecords /\ fregistry = "set" /\ RegisteredOther /\ ShutdownInit

SpecWatch == InitWatch /\ [][NextWatch]_vars

NextResolver ==
    \/ WatchStep
    \/ \E r \in WatchedRecords : Watch_EnvRegister(r)
    \/ \E r \in WatchedRecords : Watch_EnvDeregister(r)
    \/ Build
    \/ start_WithCancel
    \/ start_Watched
    \/ start_Select
    \/ start_Update
    \/ start_Panic
    \/ \E g \in Resolves : ResolveNow(g)
    \/ \E g \in Resolves : ResolveNow_Discover(g)
    \/ \E g \in Resolves : ResolveNow_Update(g)
    \/ \E g \in Resolves : ResolveNow_Panic(g)
    \/ Resolver_Close

\* the records the process registers: two instances of one service and one
\* of another
OwnRecords == WatchedRecords \cup OtherRecords

NextRegistry ==
    \/ \E r \in OwnRecords : RegisterService(r)
    \/ \E r \in OwnRecords : DeregisterService(r)
    \/ DeregisterAll
    \/ \E n \in Names : DiscoverServices(n)
    \/ \E l \in LeaseIds : RegisterCtx_Done(l)
    \/ \E l \in LeaseIds : Lease_Expire(l)
    \/ \E r \in OwnRecords : Consul_CheckPass(r)

\* one Registry on either backend, used through its ServiceManager
InitRegistry == Init /\ store = {} /\ fregistry = "set" /\ RegistryInit /\ ShutdownInit

SpecRegistry == InitRegistry /\ [][NextRegistry]_vars

NextManager ==
    \/ \E t \in Threads, r \in WatchedRecords : M_Register(t, r)
    \/ \E t \in Threads : M_Register_Store(t)
    \/ \E t \in Threads, r \in WatchedRecords : M_Deregister(t, r)
    \/ \E t \in Threads : M_Deregister_Delete(t)
    \/ \E t \in Threads : M_DeregisterAll_Range(t)
    \/ \E t \in Threads : M_DeregisterAll_Clear(t)
    \/ \E t \in Threads : M_MapFault(t)

\* one ServiceManager called from several goroutines
SpecManager == InitRegistry /\ [][NextManager]_vars

NextServer ==
    \/ Server_Start
    \/ Server_Stop
    \/ Server_RegisterService

\* one Server and the calls made on it
InitServer == InitRegistry /\ backend = "etcd"

SpecServer == InitServer /\ [][NextServer]_vars

NextShutdown ==
    \/ App_Shutdown_Spawn
    \/ \E s \in Steps : App_Step_Run(s)
    \/ App_Shutdown_Done
    \/ App_Shutdown_Timeout
    \/ Grpc_Start_Step
    \/ Grpc_Shutdown_Begin
    \/ Grpc_Shutdown_Step
    \/ Grpc_Shutdown_Return

\* an Application and a GrpcApplication, each with any of its components
\* missing or disabled, are shut down
InitShutdown ==
    /\ Init /\ store = {} /\ fregistry = "set" /\ backend = "etcd" /\ RegistryInit
    /\ steps \in [Steps -> {"nil", "none"}]
    /\ mods \in [1 .. NumModules -> [enabled : BOOLEAN, stop : {"none"}]]
    /\ ModulesInit

SpecShutdown == InitShutdown /\ [][NextShutdown]_vars

NextNaming ==
    \/ \E tag \in Tags : Call_NewRegistry(tag)
    \/ \E r \in KeyRecords : Call_Register(r)
    \/ \E n \in Texts : Call_Discover(n)

\* the constructors and the key builders, called with any input
SpecNaming == InitServer /\ [][NextNaming]_vars

\* the scheduler runs every runnable goroutine, the consumer keeps receiving,
\* and the backend does not fail every query for ever
WatchFairness ==
    /\ WF_vars(Watch_Discover)
    /\ WF_vars(Watch_Return)
    /\ WF_vars(Etcd_Recv)
    /\ WF_vars(Etcd_Discover)
    /\ SF_vars(Etcd_Discover /\ wpc' = "send")
    /\ WF_vars(Watch_Send)
    /\ WF_vars(Consul_Poll)
    /\ WF_vars(Consul_Query)
    /\ SF_vars(Consul_Query /\ wpc' = "send")
    /\ WF_vars(Consul_Sleep)
    /\ WF_vars(Client_Receive)

SpecWatchLive == InitWatch /\ [][NextWatch]_vars /\ WatchFairness

\* one resolver over a Watch subscription on either backend
SpecResolver == InitWatch /\ [][NextResolver]_vars

\* ------------------------------------------------ ClientFactory: claims
\* C1: callers of GetClient with the same name, with no Close in between,
\* all get the identical connection, and exactly one dial was made for it.
C1_SingleConnection ==
    /\ \A n \in Names : dialsSince[n] <= 1
    /\ \A c1, c2 \in Callers :
          ( /\ pc[c1] = "done" /\ pc[c2] = "done"
            /\ arg[c1] = arg[c2]
            /\ res[c1] = "conn" /\ res[c2] = "conn"
            /\ ~crossed[c1] /\ ~crossed[c2] )
          => (conn[c1] = conn[c2] /\ dialsSince[arg[c1]] = 1)

\* two callers raced through the miss path: one dialed, the other found the
\* entry in the second check, both hold the same connection
C1_Witness ==
    \E c1, c2 \in Callers :
        /\ c1 # c2
        /\ pc[c1] = "done" /\ pc[c2] = "done"
        /\ arg[c1] = arg[c2]
        /\ dialed[c1] /\ res[c1] = "conn"
        /\ disc[c2] = "hit2" /\ res[c2] = "conn" /\ conn[c2] = conn[c1]
        /\ ~crossed[c1] /\ ~crossed[c2]

\* C2: a GetClient whose Discover gave the empty list returns an error and
\* no connection, and made no dial.
C2_NotFoundIsError ==
    \A c \in Callers :
        (pc[c] = "done" /\ disc[c] = "empty")
        => (res[c] = "err" /\ conn[c] = NoConn /\ ~dialed[c])

C2_Witness ==
    \E c \in Callers : pc[c] = "done" /\ disc[c] = "empty" /\ res[c] = "err"

\* C3 (as claimed): with no Registry configured GetClient does not panic and
\* does not fail on discovery.
C3_NilRegistryNoPanic ==
    \A c \in Callers :
        (fregistry = "nil" /\ pc[c] = "done")
        => (res[c] # "panic" /\ disc[c] \notin {"err", "empty"})

\* C19: a ClientFactory.Close calls Close on every cached connection, returns
\* nil and leaves the cache empty, whichever of the connection closes failed.
C19_CloseEmptiesCache ==
    [][\A c \in Callers :
          (pc[c] = "closing" /\ pc'[c] = "done")
          => /\ res'[c] = "nil"
             /\ \A n \in Names : clients'[n] = NoConn
             /\ live' \cap {clients[n] : n \in Names} = {}]_vars

\* a Close has returned nil after one of two cached connections failed to
\* close, and the cache is empty
C19_Witness ==
    \E c \in Callers :
        /\ pc[c] = "done"
        /\ res[c] = "nil"
        /\ disc[c] = "closepart"
        /\ \A n \in Names : clients[n] = NoConn

\* ------------------------------------------------ Registry.Watch: claims
\* C9 (as claimed): on both backends the channel returned by Watch is closed
\* only after the caller's context was cancelled; a backend-side watch error
\* never ends the stream.
C9_WatchErrorKeepsStream == wchClosed => wctx = "cancelled"

C11_RegisterReachesStream ==
    \A r \in WatchedRecords :
        (r \in owed) ~> (r \notin owed \/ wctx = "cancelled" \/ wchClosed)

\* C12: once the context given to Watch is cancelled, the goroutine returns
\* and the channel Watch returned is closed, on both backends, wherever the
\* goroutine was: blocked in the send, waiting for the backend, or sleeping.
C12_CancelClosesChannel == (wret = "ok" /\ wctx = "cancelled") ~> wchClosed

\* the goroutine left through ctx.Done() while blocked in the send of a
\* snapshot: the buffer was full and the consumer never received anything
C12_Witness ==
    /\ wctx = "cancelled"
    /\ wchClosed
    /\ wpc = "exited"
    /\ wlocal # NoSnap
    /\ Len(wch) = 1
    /\ wfirst = NoSnap

\* --------------------------------------------- discoveryResolver: claims
\* C4 (as claimed): once Close has returned, UpdateState is never called again.
C4_NoPushAfterClose == ~pushedAfterClose

\* C5 (as claimed): once Close has returned, a watch loop of the resolver that
\* is running has its Watch context cancelled, whenever start ran.
C5_CloseCancelsWatch ==
    (rclose = "returned" /\ rpc \in {"watch", "loop", "update"}) => wctx = "cancelled"

\* C6 (as claimed): the lists pushed by one resolver never go back to an older
\* backend state.
C6_PushesInBackendOrder == [][ccState'.ver >= ccState.ver]_vars

\* C7 (as claimed): when ResolveNow has returned, its Discover and its push
\* have been made.
C7_ResolveNowSynchronous == \A g \in Resolves : gpc[g] = "none"

\* C7 (amended): ResolveNow only starts a goroutine; that goroutine reads the
\* backend's current list for the resolver's service name, whatever the watch
\* stream is doing, and pushes exactly that list.
C7_ResolveNowPushesDiscovered ==
    [][\A g \in Resolves :
          /\ (gpc[g] = "spawned" /\ gpc'[g] = "discovered")
             => /\ gsnap'[g].recs = {r \in store : r.name = WatchedName}
                /\ gsnap'[g].ver = storeVer
                /\ UNCHANGED wvars
          /\ (gpc[g] = "discovered" /\ gpc'[g] = "none")
             => ccState' = [ver |-> gsnap[g].ver,
                            addrs |-> {[address |-> r.address, port |-> r.port] :
                                          r \in gsnap[g].recs}]]_vars

\* a ResolveNow goroutine has pushed a non-empty list although the start
\* goroutine has not run yet: no watch event was involved
C7_Witness ==
    /\ rpc = "spawned"
    /\ ccState.ver >= 0
    /\ ccState.addrs # {}
    /\ \A g \in Resolves : gpc[g] = "none"

\* C8 (as claimed): the start goroutine ends only after Close cancelled the
\* context or after the watch channel was closed.
C8_LoopEndsOnlyOnCloseOrStreamEnd ==
    rpc = "exited" => (wctx = "cancelled" \/ wchClosed)

\* C13: cancelling the Watch context (which is what closing the resolver
\* does) changes nothing in the backend: in the cancelling step and in every
\* later step that is not another process's registration change, the records
\* visible to Discover, the leases and the pending consul registrations stay
\* as they were.
C13_CancelLeavesRegistry ==
    [][(wctx' = "cancelled" /\ storeVer' = storeVer)
          => (store' = store /\ leases' = leases /\ critical' = critical)]_vars

\* the resolver was closed, its watch goroutine has ended, and the
\* process's own record is still listed under its renewed lease
C13_Witness ==
    /\ rclose = "returned"
    /\ wctx = "cancelled"
    /\ wchClosed
    /\ backend = "etcd"
    /\ OtherRecords \subseteq store
    /\ leases[1] = "kept"

\* ------------------------------------- Registry, ServiceManager: claims
\* the records Discover lists with the address and the port of r
Matching(r) == {x \in Discover(r.name) : x.address = r.address /\ x.port = r.port}

\* C14 (as claimed): after a successful Register(r), while r's lease has not
\* run out, Discover(r.name) lists r's address and port exactly once, on
\* both backends.
C14_RegisterThenDiscover ==
    ( /\ lastOp.op = "RegisterService"
      /\ lastOp.err = "none"
      /\ backend = "etcd" => LeaseAlive(Reg, leaseOf[lastOp.rec]) )
    => Cardinality(Matching(lastOp.rec)) = 1

\* C14 (amended): the same, except that on consul the record is listed only
\* once its health check has passed.
C14_RegisterThenDiscoverWhenPassing ==
    ( /\ lastOp.op = "RegisterService"
      /\ lastOp.err = "none"
      /\ backend = "etcd" => LeaseAlive(Reg, leaseOf[lastOp.rec])
      /\ lastOp.rec \notin critical )
    => Cardinality(Matching(lastOp.rec)) = 1

\* a record that was already listed has been registered again, and another
\* instance of the same name is listed too
C14_Witness ==
    /\ lastOp.op = "RegisterService"
    /\ lastOp.err = "none"
    /\ lastOp.was
    /\ Cardinality(Matching(lastOp.rec)) = 1
    /\ Cardinality(Discover(lastOp.rec.name)) = 2

\* C15: after Deregister(r) has returned without error, Discover(r.name)
\* does not list r.
C15_DeregisterRemoves ==
    (lastOp.op = "DeregisterService" /\ lastOp.err = "none")
    => lastOp.rec \notin Discover(lastOp.rec.name)

\* a listed record was deregistered and another instance of its name stays
C15_Witness ==
    /\ lastOp.op = "DeregisterService"
    /\ lastOp.err = "none"
    /\ lastOp.was
    /\ lastOp.rec \notin store
    /\ Discover(lastOp.rec.name) # {}

\* C16 (as claimed): a Deregister of a record the backend does not hold (a
\* second Deregister, or one of a record never registered) that reaches the
\* backend returns no error and leaves the record absent.
C16_DeregisterIdempotent ==
    ( /\ lastOp.op = "DeregisterService"
      /\ ~lastOp.was
      /\ lastOp.err # "unreachable" )
    => (lastOp.err = "none" /\ lastOp.rec \notin store)

\* C17 (as claimed): on etcd a record this process registered and has not
\* deregistered stays listed, unless its lease was revoked.
C17_RecordStaysWhileOwned ==
    backend = "etcd" =>
        \A r \in owned : leases[leaseOf[r]] # "revoked" => r \in store

\* C18: when DeregisterAll has returned, the RegisteredSet is empty, the
\* result is nil, and Deregister was called for every record that was in
\* the set, whichever of the calls failed.
C18_DeregisterAllClears ==
    lastOp.op = "DeregisterAll"
    => (services = {} /\ lastOp.err = "none" /\ lastOp.tried = lastOp.set)

\* some of the Deregister calls of a DeregisterAll failed and some did not
C18_Witness ==
    /\ lastOp.op = "DeregisterAll"
    /\ lastOp.failed # {}
    /\ lastOp.failed # lastOp.tried
    /\ services = {}

\* C20 (as claimed): when DeregisterService(record) has returned, the record
\* is not in the RegisteredSet, whether Registry.Deregister failed or not.
C20_DeregisterServiceRemoves ==
    lastOp.op = "DeregisterService" => lastOp.rec \notin services

\* C21: when RegisterService(record) has returned, the record was added to
\* the RegisteredSet exactly if Registry.Register succeeded; when Register
\* failed the error was returned and the RegisteredSet is as it was.
C21_RegisterServiceBookkeeping ==
    lastOp.op = "RegisterService"
    => /\ lastOp.err = "none" => services = lastOp.set \cup {lastOp.rec}
       /\ lastOp.err # "none" => services = lastOp.set

\* a RegisterService failed while another record was in the RegisteredSet
C21_Witness ==
    /\ lastOp.op = "RegisterService"
    /\ lastOp.err # "none"
    /\ lastOp.rec \notin services
    /\ services # {}

\* C30: when a Discover(name) that reached the backend has returned and no
\* instance was listed under the name, it returned the empty list and no
\* error.
C30_DiscoverEmptyIsNotAnError ==
    ( /\ lastOp.op = "DiscoverServices"
      /\ ~lastOp.was
      /\ lastOp.err # "unreachable" )
    => (lastOp.err = "none" /\ lastOp.set = {})

\* a Discover of a name without instances returned, while the other service
\* has an instance listed
C30_Witness ==
    /\ lastOp.op = "DiscoverServices"
    /\ ~lastOp.was
    /\ lastOp.err = "none"
    /\ lastOp.set = {}
    /\ store # {}

\* --------------------------------- ServiceManager, concurrent: claims
\* C22 (as claimed): once every concurrent RegisterService, DeregisterService
\* and DeregisterAll call has returned, every record whose Register
\* succeeded, and for which no Deregister was called since, is in the
\* RegisteredSet.
C22_NoLostRegistration ==
    ((\A t \in Threads : mpc[t] = "idle") /\ ~crashed) => kept \subseteq services

\* ------------------------------------------------ ClientFactory: claims
\* C23: at any time, for each service name, at most one connection that the
\* factory dialed is open.
C23_OneLiveConnectionPerKey ==
    \A n \in Names : Cardinality({k \in live : keyOf[k] = n}) <= 1

\* two callers hold different connections the factory made for one name:
\* one is open, the other one was closed
C23_Witness ==
    \E c, d \in Callers :
        /\ res[c] = "conn" /\ res[d] = "conn"
        /\ arg[c] = arg[d]
        /\ conn[c] # conn[d]
        /\ conn[c] \in live
        /\ conn[d] \notin live

\* C24: a GetClient that finds no cache entry under the lock (none yet, or
\* evicted by Close) performs the existence check, and when it returns a
\* connection that connection was dialed by this call, was never handed out
\* before, is open, and is the cache entry of the name.
C24_FreshEntryAfterEviction ==
    [][\A c \in Callers :
          ( /\ pc[c] = "locked" /\ pc'[c] = "done"
            /\ fregistry = "set"
            /\ clients[arg[c]] = NoConn )
          => /\ disc'[c] \in {"err", "empty", "found"}
             /\ res'[c] = "conn"
                => /\ disc'[c] = "found"
                   /\ dialed'[c]
                   /\ conn'[c] >= nextConn
                   /\ \A d \in Callers : conn[d] < nextConn
                   /\ \A k \in live : k < nextConn
                   /\ conn'[c] \in live'
                   /\ clients'[arg[c]] = conn'[c]]_vars

\* after a Close evicted the entry of a name, a caller has dialed a second
\* connection for the name and it is cached, while another caller still
\* holds the first one
C24_Witness ==
    \E c, d \in Callers :
        /\ pc[c] = "done" /\ dialed[c] /\ res[c] = "conn"
        /\ clients[arg[c]] = conn[c]
        /\ conn[c] \in live
        /\ arg[d] = arg[c]
        /\ res[d] = "conn"
        /\ conn[d] # NoConn
        /\ conn[d] < conn[c]

\* ------------------------------------------------------ shutdown: claims
\* C25: when Application.shutdown has returned, it returned nil and the
\* goroutine of every cleanup step whose component exists was launched;
\* when GrpcApplication.shutdown has returned, it returned nil and Stop was
\* called on every enabled module; this holds whichever steps failed.
C25_ShutdownReportsSuccess ==
    /\ apc = "returned"
       => (ares = "nil" /\ \A s \in Steps : steps[s] # "none")
    /\ gres # "none"
       => (gres = "nil" /\ \A i \in 1 .. NumModules :
                              mods[i].enabled => mods[i].stop # "none")

\* both shutdowns have returned nil although a cleanup step and a module
\* Stop failed
C25_Witness ==
    /\ apc = "returned" /\ ares = "nil"
    /\ \E s \in Steps : steps[s] = "err"
    /\ \E s \in Steps : steps[s] = "ok"
    /\ gres = "nil"
    /\ \E i \in 1 .. NumModules : mods[i].stop = "err"

\* ------------------------------------------------------ resolver: claims
\* C26 (as claimed): a panic raised inside the resolver's watch loop or in a
\* ResolveNow goroutine does not end the process.
C26_PanicDoesNotCrash == ~crashed

\* -------------------------------------------------------- Server: claims
\* C27: IsHealthy is true exactly when the last Start or Stop that took
\* effect was a successful Start: it is false before the first Start, after
\* a Start of a stopped server that returned an error, and after Stop.
C27_HealthyBetweenStartAndStop ==
    /\ IsHealthy <=> up
    /\ sOp.op = "none" => ~IsHealthy
    /\ (sOp.op = "Start" /\ ~sOp.was /\ sOp.err # "none") => ~IsHealthy
    /\ sOp.op = "Stop" => ~IsHealthy

\* a server that was started and stopped before has failed to start again,
\* after it had opened the listener, and is not healthy
C27_Witness ==
    /\ sOp.op = "Start"
    /\ sOp.err = "optionsErr"
    /\ servers >= 1
    /\ ~IsHealthy

\* C28: a Start on a started server returns an error and changes no state;
\* a Stop on a server that is not started returns nil and changes no state.
C28_RedundantCallsChangeNothing ==
    [][/\ (sOp'.op = "Start" /\ started)
          => /\ sOp'.err # "none"
             /\ UNCHANGED <<started, listeners, servers, svcs, health>>
       /\ (sOp'.op = "Stop" /\ ~started)
          => /\ sOp'.err = "none"
             /\ UNCHANGED <<started, listeners, servers, svcs, health>>]_vars

\* a Start on a started server has returned its error; the one listener and
\* the one grpc.Server of the first Start are all there is
C28_Witness ==
    /\ sOp = [op |-> "Start", err |-> "already", was |-> TRUE]
    /\ started
    /\ listeners = 1
    /\ servers = 1

\* C29: a RegisterService on a started server leaves the list of services
\* as it was; on a server that is not started it appends one service.
C29_RegisterServiceWhileStarted ==
    [][sOp'.op = "RegisterService"
       => svcs' = (IF started THEN svcs ELSE svcs + 1)]_vars

\* a RegisterService was made on a started server that has one service
C29_Witness ==
    /\ sOp.op = "RegisterService"
    /\ sOp.was
    /\ started
    /\ svcs = 1

\* ------------------------------------------ constructors, keys: claims
\* C31: when NewRegistry has returned for a type tag other than "etcd" and
\* "consul", it returned no Registry and the error "unsupported discovery
\* type: " followed by the tag, and no backend client was made.
C31_UnsupportedTypeIsAnError ==
    (call.op = "NewRegistry" /\ call.tag \notin {"etcd", "consul"})
    => /\ call.reg = "nil"
       /\ call.err = <<"unsupported discovery type: ", call.tag>>
       /\ call.clients = 0

\* NewRegistry has returned for a tag that differs from a supported one in
\* case only
C31_Witness ==
    /\ call.op = "NewRegistry"
    /\ call.tag = "ETCD"
    /\ call.reg = "nil"
    /\ call.err = <<"unsupported discovery type: ", "ETCD">>

\* C33 (as claimed): a record whose etcd key, consul service ID or
\* ServiceManager key equals the one built for a registered record has the
\* same name, address and port.
C33_IdentifiersAreInjective ==
    call.op = "Register"
    => \A r \in KeyRecords :
          ( \/ buildServiceKey(r.name, r.address, r.port) = call.etcdKey
            \/ serviceID(r) = call.consulID
            \/ ManagerKey(r) = call.managerKey )
          => r = call.rec

\* C34 (as claimed): every record whose etcd key lies under the prefix that
\* Discover(n) lists and Watch(n) watches has the name n.
C34_PrefixSelectsOneName ==
    call.op = "Discover"
    => \A r \in KeyRecords :
          HasPrefix(buildServiceKey(r.name, r.address, r.port), call.prefix)
          => r.name = call.rec.name

\* ------------------------------------------------------ Registry: claims
\* C32 (as claimed): on etcd a DeregisterService(r) of a registered record r
\* leaves every other record
\* that this registry registered, and that was not deregistered, listed, and
\* does not revoke its lease.
C32_DeregisterRemovesOnlyIt ==
    [][\A r \in OwnRecords :
          (backend = "etcd" /\ r \in owned /\ DeregisterService(r))
          => \A x \in owned \ {r} :
                x \in store
                => (x \in store' /\ leases'[leaseOf[x]] = leases[leaseOf[x]])]_vars

\* ------------------------------------------------- ClientFactory: claims
\* C36: a GetClient that fails (Discover error, no instance, dial error)
\* leaves the cache as it was, and nothing remembers the failure: every
\* GetClient that misses under the lock asks the registry again, dials when
\* the registry lists an instance, and a connection it returns is open and
\* cached under the name.
C36_FailureLeavesNoTrace ==
    [][\A c \in Callers :
          (pc[c] = "locked" /\ pc'[c] = "done")
          => /\ res'[c] \in {"err", "panic"} => clients' = clients
             /\ (clients[arg[c]] = NoConn /\ fregistry = "set")
                => /\ disc'[c] \in DiscoverResults(arg[c])
                   /\ disc'[c] = "found" => dialed'[c]
                   /\ res'[c] = "conn"
                      => (conn'[c] \in live' /\ clients'[arg[c]] = conn'[c])]_vars

\* C36 witness: a caller's GetClient failed because no instance was listed;
\* after an instance was registered another caller's GetClient for the same
\* name discovered it and returned a connection, now cached; no Close ran
\* in between.
C36_Witness ==
    \E c1, c2 \in Callers :
       /\ c1 # c2 /\ arg[c1] = arg[c2]
       /\ pc[c1] = "done" /\ res[c1] = "err" /\ disc[c1] = "empty"
       /\ pc[c2] = "done" /\ res[c2] = "conn" /\ disc[c2] = "found"
       /\ conn[c2] \in live /\ clients[arg[c2]] = conn[c2]
       /\ ~crossed[c1] /\ ~crossed[c2]
       /\ dialsSince[arg[c2]] = 1

\* C37: under any interleaving of GetClient and Close no connection in the
\* cache is one the factory has closed, and no GetClient is inside its
\* locked part while a Close is inside its own.
C37_CacheHoldsNoFactoryClosed ==
    /\ \A n \in Names : clients[n] # NoConn => clients[n] \notin fclosed
    /\ \A c, d \in Callers :
          (pc[c] = "closing" /\ pc[d] \in {"locked", "closing"}) => c = d

\* C37 witness: a Close ran while a GetClient call was under way and closed
\* a connection; the call then dialed a new connection, which is cached.
C37_Witness ==
    \E d \in Callers :
       /\ fclosed # {}
       /\ crossed[d] /\ pc[d] = "done" /\ res[d] = "conn" /\ disc[d] = "found"
       /\ clients[arg[d]] = conn[d] /\ conn[d] \in live

\* C35: however GetClient calls for different names interleave on one
\* factory, the resolver built for the connection cached under a name has
\* launched exactly one watch loop, and that loop's serviceName (which its
\* Watch and its ResolveNow pass to the registry) is that name.
C35_ResolverWatchesItsName ==
    \A n \in Names : clients[n] # NoConn => loops[clients[n]] = <<n>>

\* C35 witness: connections for two different names are cached, dialed by
\* two callers whose results are both outstanding, and the registered
\* builder is the one of the later dial.
C35_Witness ==
    \E c1, c2 \in Callers :
       /\ c1 # c2 /\ arg[c1] # arg[c2]
       /\ pc[c1] = "done" /\ res[c1] = "conn" /\ disc[c1] = "found"
       /\ pc[c2] = "done" /\ res[c2] = "conn" /\ disc[c2] = "found"
       /\ clients[arg[c1]] = conn[c1] /\ clients[arg[c2]] = conn[c2]
       /\ conn[c1] < conn[c2] /\ builder = arg[c2]

\* ------------------------------------------------------ starter: claims
\* C38: GrpcApplication.shutdown calls Stop on the enabled modules only, in
\* the reverse of the order they were registered and started in, each at
\* most once while it runs and each exactly once by the time it returns,
\* whatever the Stop calls returned.
C38_StopsInReverseOrder ==
    LET Reverse(q) == [j \in 1 .. Len(q) |-> q[Len(q) + 1 - j]]
        EnabledInOrder ==
            SelectSeq([j \in 1 .. Len(mods) |-> j], LAMBDA j : mods[j].enabled)
    IN  /\ si = Len(mods) + 1 => startLog = EnabledInOrder
        /\ Len(stopLog) <= Len(startLog)
        /\ stopLog = SubSeq(Reverse(startLog), 1, Len(stopLog))
        /\ gres = "nil" => stopLog = Reverse(EnabledInOrder)

\* C38 witness: shutdown has returned; the MetricsModule's Stop returned an
\* error and the GrpcServerModule, registered before it, was stopped after
\* it; the DiscoveryModule is disabled and was skipped.
C38_Witness ==
    /\ gres = "nil"
    /\ mods[2].enabled /\ mods[2].stop = "err"
    /\ ~mods[3].enabled
    /\ startLog = <<1, 2>>
    /\ stopLog = <<2, 1>>

====
